---- MODULE Spec2Model ----
(***************************************************************************)
(* Smart Study Companion back-end: the weighted-task planner              *)
(* (app/services/scheduling.py) and the persistence protocol of           *)
(* POST /schedule/generate (app/api/routes/schedule.py).                  *)
(*                                                                         *)
(* Time is an integer number of minutes since Monday 00:00 UTC of week 0.  *)
(* A user timezone is a fixed UTC offset in minutes (no DST transitions).  *)
(* Weights are Python floats in the code; here they are exact integers,   *)
(* the float value multiplied by WeightScale, which is exact as long as    *)
(* deadline - reference is a multiple of 5 minutes.                        *)
(***************************************************************************)
EXTENDS Integers, Sequences, FiniteSets, TLC

VARIABLES
    wTasks,      \* calculate_weights: the tasks argument
    wTz,         \* calculate_weights: the user_tz argument
    wOut,        \* calculate_weights: the returned list
    wPc,         \* "input" while the argument list is built, "done" after the call
    iSessions,   \* interleave_subjects: the sessions argument
    iPrio,       \* interleave_subjects: the task_priorities argument
    iOut,        \* interleave_subjects: the returned list
    iPc,         \* "input" while the argument list is built, "done" after the call
    pUser,       \* build_weekly_plan: the user argument
    pConstraints,\* build_weekly_plan: the constraints argument
    pEnergy,     \* build_weekly_plan: the energy_by_day argument
    pRef,        \* build_weekly_plan: the reference argument
    pTasks,      \* build_weekly_plan: the (mutable) list of weighted tasks
    pOffset,     \* build_weekly_plan: the loop variable offset
    pPlans,      \* build_weekly_plan: the list plans
    dbSessions,  \* table study_sessions: the committed rows
    dbTasks,     \* table tasks: the committed rows of the user
    dbNextId,    \* the next value of the study_sessions id sequence
    clock,       \* datetime.now(timezone.utc)
    gen,         \* per request of POST /schedule/generate: its position, its
                 \* locals and the uncommitted writes of its db session
    last,        \* the last request to a session or task route: its operation,
                 \* arguments, response code and the committed rows before it
    ops,         \* the number of requests to the session and task routes so far
    marked,      \* per task: the time it was last marked complete, by a task
                 \* update or by auto-completion (None: never or un-marked since)
    rTemplate,   \* a recurring template of table tasks
    rInstances,  \* table tasks: the instances of the template
    rNow,        \* datetime.now(timezone.utc) of the calls on the template
    rWeeks,      \* generate_recurring_instances: the weeks_ahead argument
    rLast,       \* the last call on the template: its operation, the instance it
                 \* completed, its outcome and the instances before it
    rCalls,      \* the number of calls on the template so far
    response,    \* the response to the last request: its status code and the
                 \* sessions of its body
    twin,        \* the same requests against a store that differs in the rows of
                 \* another user: its sessions, tasks, sequence and last response
    args,        \* one call of a function: its arguments
    frame,       \* the call's locals and, when it has returned, its result
    pc,          \* the call's position
    energyRows,  \* table daily_energy: the committed rows
    upsert       \* per request of POST /energy/: its position, its payload and
                 \* the record its query returned

weightVars == <<wTasks, wTz, wOut, wPc>>
interleaveVars == <<iSessions, iPrio, iOut, iPc>>
planVars == <<pUser, pConstraints, pEnergy, pRef, pTasks, pOffset, pPlans>>
storeVars == <<dbSessions, dbTasks, dbNextId, clock, gen>>
routeVars == <<last, ops, marked>>
recurVars == <<rTemplate, rInstances, rNow, rWeeks, rLast, rCalls>>
twinVars == <<response, twin>>
callVars == <<args, frame, pc>>
energyVars == <<energyRows, upsert>>

vars == <<wTasks, wTz, wOut, wPc, iSessions, iPrio, iOut, iPc,
          pUser, pConstraints, pEnergy, pRef, pTasks, pOffset, pPlans,
          dbSessions, dbTasks, dbNextId, clock, gen, last, ops, marked,
          rTemplate, rInstances, rNow, rWeeks, rLast, rCalls, response, twin,
         args, frame, pc, energyRows, upsert>>

-----------------------------------------------------------------------------
(* Values *)

None == -1                 \* Python None for an optional non-negative integer
NoTz == 9999               \* user_tz = None (calculate_weights called without a timezone)

Day == 1440
Hour == 60

Max(a, b) == IF a >= b THEN a ELSE b
Min(a, b) == IF a <= b THEN a ELSE b

SeqToSet(s) == {s[i] : i \in 1..Len(s)}

-----------------------------------------------------------------------------
(* TimeKit *)

\* datetime.astimezone(tz): the local wall clock of a UTC instant
ToLocal(t, tz) == t + tz

\* the UTC instant of a local wall-clock time
ToUtc(t, tz) == t - tz

\* datetime.date(): the day number of a wall-clock time
DateOf(t) == t \div Day

\* date.weekday(): 0 = Monday (day 0 of the epoch is a Monday)
Weekday(d) == d % 7

\* dt.replace(hour=0, minute=0): midnight of the same wall-clock day
Midnight(t) == DateOf(t) * Day

local_day_start(reference, tz) == ToUtc(Midnight(ToLocal(reference, tz)), tz)

-----------------------------------------------------------------------------
(* WeightEngine *)

\* PRIORITY_WEIGHT times 10
PRIORITY_WEIGHT(p) ==
    CASE p = "LOW" -> 8
      [] p = "MEDIUM" -> 10
      [] p = "HIGH" -> 13
      [] p = "CRITICAL" -> 16

\* DIFFICULTY_WEIGHT times 100
DIFFICULTY_WEIGHT(d) ==
    CASE d = "EASY" -> 90
      [] d = "MEDIUM" -> 100
      [] d = "HARD" -> 125

\* one unit of weight: 10 (priority) * 100 (difficulty) * 60 (exam) * 2016 (deadline)
WeightScale == 10 * 100 * 60 * 2016

\* the subject modifier times 100 * 60
calculate_subject_weight_modifier(subject, reference, user_tz) ==
    LET ref_local_date == IF user_tz # NoTz THEN DateOf(ToLocal(reference, user_tz))
                          ELSE DateOf(reference)
        days_until_exam == subject.exam_date - ref_local_date
    IN  IF subject.exam_date # None /\ days_until_exam >= 0
        THEN DIFFICULTY_WEIGHT(subject.difficulty) * (60 + Max(0, 30 - days_until_exam))
        ELSE DIFFICULTY_WEIGHT(subject.difficulty) * 60

\* the deadline modifier times 2016 (7 days in 5-minute steps)
calculate_deadline_weight_modifier(task, reference) ==
    IF task.deadline = None THEN 2016
    ELSE LET delta == task.deadline - reference
         IN  IF delta <= 0 THEN 3528
             ELSE 2016 + Max(0, 2016 - (delta \div 5))

total_minutes_spent(task) ==
    (IF task.actual_minutes_spent = None THEN 0 ELSE task.actual_minutes_spent)
    + task.timer_minutes_spent

SubjectOf(subjects, id) ==
    IF id # None /\ \E i \in 1..Len(subjects) : subjects[i].id = id
    THEN subjects[CHOOSE i \in 1..Len(subjects) : subjects[i].id = id]
    ELSE [id |-> None, difficulty |-> "MEDIUM", exam_date |-> None]

TaskWeight(task, subjects, reference, user_tz) ==
    LET subject == SubjectOf(subjects, task.subject_id)
        sm == IF subject.id # None
              THEN calculate_subject_weight_modifier(subject, reference, user_tz)
              ELSE 100 * 60
        w == PRIORITY_WEIGHT(task.priority) * sm
                 * calculate_deadline_weight_modifier(task, reference)
             + task.estimated_minutes * (WeightScale \div 120)
    IN  IF task.priority = "CRITICAL" THEN Max(w, 2 * WeightScale) ELSE w

\* the estimate alone, whatever was spent
estimated_minutes_only(task) == task.estimated_minutes

RemainingMinutes(task) == Max(0, task.estimated_minutes - total_minutes_spent(task))

\* the tasks the loop of calculate_weights keeps
IsKept(task) ==
    /\ ~task.is_completed
    /\ ~task.is_recurring_template
    /\ RemainingMinutes(task) > 0

WeightedTask(task, subjects, reference, user_tz) ==
    [weight |-> TaskWeight(task, subjects, reference, user_tz),
     task |-> task,
     subject |-> SubjectOf(subjects, task.subject_id).id,
     remaining_minutes |-> RemainingMinutes(task)]

\* list.sort() on WeightedTask: ascending sort_index = -weight, stable
RECURSIVE InsertByWeight(_, _)
InsertByWeight(sorted, wt) ==
    IF sorted = <<>> THEN <<wt>>
    ELSE IF -wt.weight < -Head(sorted).weight
         THEN <<wt>> \o sorted
         ELSE <<Head(sorted)>> \o InsertByWeight(Tail(sorted), wt)

RECURSIVE SortByWeightFrom(_, _)
SortByWeightFrom(sorted, rest) ==
    IF rest = <<>> THEN sorted
    ELSE SortByWeightFrom(InsertByWeight(sorted, Head(rest)), Tail(rest))

\* a sort whose key is +weight instead of sort_index = -weight
RECURSIVE InsertByWeightAscending(_, _)
InsertByWeightAscending(sorted, wt) ==
    IF sorted = <<>> THEN <<wt>>
    ELSE IF wt.weight < Head(sorted).weight
         THEN <<wt>> \o sorted
         ELSE <<Head(sorted)>> \o InsertByWeightAscending(Tail(sorted), wt)

RECURSIVE SortAscendingFrom(_, _)
SortAscendingFrom(sorted, rest) ==
    IF rest = <<>> THEN sorted
    ELSE SortAscendingFrom(InsertByWeightAscending(sorted, Head(rest)), Tail(rest))

sort_weighted_ascending(weighted_tasks) == SortAscendingFrom(<<>>, weighted_tasks)

sort_weighted(weighted_tasks) == SortByWeightFrom(<<>>, weighted_tasks)

RECURSIVE WeighAll(_, _, _, _)
WeighAll(tasks, subjects, reference, user_tz) ==
    IF tasks = <<>> THEN <<>>
    ELSE (IF IsKept(Head(tasks))
          THEN <<WeightedTask(Head(tasks), subjects, reference, user_tz)>>
          ELSE <<>>)
         \o WeighAll(Tail(tasks), subjects, reference, user_tz)

calculate_weights(tasks, subjects, reference, user_tz) ==
    sort_weighted(WeighAll(tasks, subjects, reference, user_tz))

-----------------------------------------------------------------------------
(* Planner: breaks and interleaving *)

\* TaskPriority.<NAME>.value
PriorityValue(p) ==
    CASE p = "LOW" -> "low"
      [] p = "MEDIUM" -> "medium"
      [] p = "HIGH" -> "high"
      [] p = "CRITICAL" -> "critical"

\* insert_breaks: the loop from index idx on; a shifted block is the block the
\* next iteration measures its gap from (the list elements are mutated in place)
RECURSIVE InsertBreaksFrom(_, _, _)
InsertBreaksFrom(sessions, idx, break_minutes) ==
    IF idx >= Len(sessions) THEN sessions
    ELSE LET gap == sessions[idx + 1].start_time - sessions[idx].end_time
             shift == break_minutes - gap
         IN  IF gap < break_minutes
             THEN InsertBreaksFrom(
                      [sessions EXCEPT ![idx + 1].start_time = @ + shift,
                                       ![idx + 1].end_time = @ + shift],
                      idx + 1, break_minutes)
             ELSE InsertBreaksFrom(sessions, idx + 1, break_minutes)

insert_breaks(sessions, break_minutes) == InsertBreaksFrom(sessions, 1, break_minutes)

is_critical(session, task_priorities) ==
    /\ session.task_id # None
    /\ session.task_id # 0
    /\ session.task_id \in DOMAIN task_priorities
    /\ task_priorities[session.task_id] = "CRITICAL"

Swap(s, a, b) == [s EXCEPT ![a] = s[b], ![b] = s[a]]

\* the while loop of interleave_subjects at (1-based) index i; the for loop over
\* j leaves at its first candidate, result[i + 2]
RECURSIVE InterleaveFrom(_, _, _)
InterleaveFrom(result, i, task_priorities) ==
    IF i >= Len(result) THEN result
    ELSE IF is_critical(result[i], task_priorities)
            \/ is_critical(result[i + 1], task_priorities)
         THEN InterleaveFrom(result, i + 1, task_priorities)
         ELSE IF /\ result[i].subject_id = result[i + 1].subject_id
                 /\ i + 2 <= Len(result)
                 /\ ~is_critical(result[i + 2], task_priorities)
                 /\ result[i + 2].subject_id # result[i].subject_id
              THEN InterleaveFrom(Swap(result, i + 1, i + 2), i + 1, task_priorities)
              ELSE InterleaveFrom(result, i + 1, task_priorities)

interleave_subjects(sessions, task_priorities) ==
    IF Len(sessions) < 2 THEN sessions
    ELSE IF DOMAIN task_priorities = {} THEN sessions
    ELSE InterleaveFrom(sessions, 1, task_priorities)

-----------------------------------------------------------------------------
(* Planner: study windows and constraints *)

\* WINDOW_SCHEDULE, as <<start, end>> minutes of the day
IsPresetName(name) == name \in {"morning", "afternoon", "evening", "night"}

WINDOW_SCHEDULE(name) ==
    CASE name = "morning" -> <<7 * Hour, 11 * Hour>>
      [] name = "afternoon" -> <<12 * Hour, 16 * Hour + 30>>
      [] name = "evening" -> <<17 * Hour, 21 * Hour>>
      [] name = "night" -> <<21 * Hour, 23 * Hour>>

\* A window entry of preferred_study_windows is a record
\*   [type |-> "legacy" (a bare string) | "preset" | "custom" | another type,
\*    name |-> the string value, start |-> , end |-> the "HH:MM" strings of a custom
\*    value]
\* A time string is the sequence of its parts between colons, each part the value
\* of int() on it, or None where int() raises; <<>> is a missing or empty string.

\* _parse_custom_time with the minutes dropped
parse_custom_time_hours_only(time_str) ==
    IF Len(time_str) # 2 THEN None
    ELSE IF time_str[1] \notin 0..23 \/ time_str[2] \notin 0..59 THEN None
    ELSE time_str[1] * Hour

\* _parse_custom_time: minutes of the day, or None
parse_custom_time(time_str) ==
    IF Len(time_str) # 2 THEN None
    ELSE IF time_str[1] \notin 0..23 \/ time_str[2] \notin 0..59 THEN None
    ELSE time_str[1] * Hour + time_str[2]

\* _parse_custom_range for a dict value: <<start, end>>, or <<>> for None
parse_custom_range(value) ==
    IF value.start = <<>> \/ value.end = <<>> THEN <<>>
    ELSE LET start_time == parse_custom_time(value.start)
             end_time == parse_custom_time(value.end)
         IN  IF start_time # None /\ end_time # None THEN <<start_time, end_time>>
             ELSE <<>>

\* _parse_window_config: <<start, end>>, or <<>> for None
parse_window_config(window_config) ==
    IF window_config.type = "preset"
    THEN IF IsPresetName(window_config.name) THEN WINDOW_SCHEDULE(window_config.name)
         ELSE <<>>
    ELSE IF window_config.type = "custom"
    THEN parse_custom_range(window_config)
    ELSE <<>>

RECURSIVE ParseEach(_, _)
ParseEach(raw, legacy) ==
    IF raw = <<>> THEN <<>>
    ELSE LET parsed == IF legacy
                       THEN IF Head(raw).type = "legacy" /\ IsPresetName(Head(raw).name)
                            THEN WINDOW_SCHEDULE(Head(raw).name) ELSE <<>>
                       ELSE parse_window_config(Head(raw))
         IN  (IF parsed = <<>> THEN <<>> ELSE <<parsed>>) \o ParseEach(Tail(raw), legacy)

parse_study_windows(preferred_windows_raw) ==
    LET default == <<WINDOW_SCHEDULE("evening")>>
    IN  IF preferred_windows_raw = <<>> THEN default
        ELSE LET windows == ParseEach(preferred_windows_raw,
                                      preferred_windows_raw[1].type = "legacy")
             IN  IF windows = <<>> THEN default ELSE windows

\* _window_to_range: the UTC range of a local time block on the local day that
\* starts at day_start
window_to_range(day_start, block, user_tz) ==
    LET day_start_local == ToLocal(day_start, user_tz)
        start_local == Midnight(day_start_local) + block[1]
        end_at == Midnight(day_start_local) + block[2]
        end_local == IF end_at <= start_local THEN end_at + Day ELSE end_at
    IN  <<ToUtc(start_local, user_tz), ToUtc(end_local, user_tz)>>

\* A ScheduleConstraint is a record [is_recurring, days_of_week (a set, {} for
\* None), start_time, end_time (minutes of the day or None), start_datetime,
\* end_datetime (UTC minutes or None)]
is_recurring_constraint_relevant(constraint, weekday) ==
    constraint.days_of_week # {} /\ weekday \in constraint.days_of_week

is_one_time_constraint_relevant(constraint, day, user_tz) ==
    IF constraint.start_datetime = None THEN FALSE
    ELSE IF DateOf(ToLocal(constraint.start_datetime, user_tz)) > day THEN FALSE
    ELSE IF constraint.end_datetime = None THEN FALSE
    ELSE DateOf(ToLocal(constraint.end_datetime, user_tz)) >= day

RECURSIVE extract_constraints_for_day(_, _, _)
extract_constraints_for_day(constraints, day, user_tz) ==
    IF constraints = <<>> THEN <<>>
    ELSE LET c == Head(constraints)
             relevant == IF c.is_recurring
                         THEN is_recurring_constraint_relevant(c, Weekday(day))
                         ELSE is_one_time_constraint_relevant(c, day, user_tz)
         IN  (IF relevant THEN <<c>> ELSE <<>>)
             \o extract_constraints_for_day(Tail(constraints), day, user_tz)

\* overlaps() of apply_constraints: the constraint's local times are put on the
\* UTC calendar day of block_start
ConstraintOverlaps(block_start, block_end, constraint) ==
    IF constraint.start_datetime # None /\ constraint.end_datetime # None
    THEN ~(block_end <= constraint.start_datetime \/ block_start >= constraint.end_datetime)
    ELSE IF constraint.start_time # None /\ constraint.end_time # None
    THEN LET c_start == Midnight(block_start) + constraint.start_time
             c_at == Midnight(block_start) + constraint.end_time
             c_end == IF c_at <= c_start THEN c_at + Day ELSE c_at
         IN  ~(block_end <= c_start \/ block_start >= c_end)
    ELSE FALSE

RECURSIVE apply_constraints(_, _)
apply_constraints(blocks, constraints) ==
    IF blocks = <<>> THEN <<>>
    ELSE LET b == Head(blocks)
             conflict == \E i \in 1..Len(constraints) :
                            ConstraintOverlaps(b[1], b[2], constraints[i])
         IN  (IF conflict THEN <<>> ELSE <<b>>) \o apply_constraints(Tail(blocks), constraints)

-----------------------------------------------------------------------------
(* Planner: allocation *)

ENERGY_SESSION_CAP(level) ==
    CASE level = "low" -> 45
      [] level = "medium" -> 90
      [] level = "high" -> 120

\* level is "none" for a day without a DailyEnergy row
energy_cap(level, user_max) ==
    Min(ENERGY_SESSION_CAP(IF level = "none" THEN "medium" ELSE level), user_max)

\* _calculate_window_pointer: None when the window is over
calculate_window_pointer(window_start, window_end, current_time) ==
    LET window_date == DateOf(window_start)
        current_date == DateOf(current_time)
        pointer == IF window_date = current_date THEN Max(window_start, current_time)
                   ELSE window_start
    IN  IF pointer >= window_end THEN None ELSE pointer

\* the while loop of _allocate_sessions_for_day on one window, each iteration a
\* call of _process_task_in_window; st = [tasks, sessions]
RECURSIVE AllocateWindow(_, _, _, _, _)
AllocateWindow(st, pointer, window_end, session_cap, break_duration) ==
    IF ~(pointer < window_end /\ st.tasks # <<>>) THEN st
    ELSE LET current_task == Head(st.tasks)
             window_remaining == window_end - pointer
             session_length == Min(Min(session_cap, current_task.remaining_minutes),
                                   window_remaining)
             left == current_task.remaining_minutes - session_length
             session == [start_time |-> pointer,
                         end_time |-> pointer + session_length,
                         subject_id |-> current_task.subject,
                         task_id |-> current_task.task.id]
         IN  IF current_task.remaining_minutes <= 10
             THEN AllocateWindow([st EXCEPT !.tasks = Tail(st.tasks)],
                                 pointer, window_end, session_cap, break_duration)
             ELSE IF window_remaining <= 10
             THEN AllocateWindow(st, window_end, window_end, session_cap, break_duration)
             ELSE AllocateWindow(
                      [tasks |-> IF left <= 0 THEN Tail(st.tasks)
                                 ELSE <<[current_task EXCEPT !.remaining_minutes = left]>>
                                      \o Tail(st.tasks),
                       sessions |-> Append(st.sessions, session)],
                      pointer + session_length + break_duration,
                      window_end, session_cap, break_duration)

RECURSIVE AllocateWindows(_, _, _, _, _)
AllocateWindows(st, windows, session_cap, break_duration, current_time) ==
    IF windows = <<>> THEN st
    ELSE LET w == Head(windows)
             pointer == calculate_window_pointer(w[1], w[2], current_time)
         IN  AllocateWindows(
                 IF pointer = None THEN st
                 ELSE AllocateWindow(st, pointer, w[2], session_cap, break_duration),
                 Tail(windows), session_cap, break_duration, current_time)

\* _allocate_sessions_for_day: [tasks |-> the task list it leaves, sessions |-> the
\* list it returns]
allocate_sessions_for_day(windows, tasks, energy_level, user, current_time) ==
    LET session_cap == energy_cap(energy_level, user.max_session_length)
        task_priorities == [id \in {tasks[i].task.id : i \in 1..Len(tasks)} |->
                               PriorityValue((CHOOSE wt \in SeqToSet(tasks) :
                                                 wt.task.id = id).task.priority)]
        st == AllocateWindows([tasks |-> tasks, sessions |-> <<>>], windows,
                              session_cap, user.break_duration, current_time)
    IN  [tasks |-> st.tasks,
         sessions |-> interleave_subjects(insert_breaks(st.sessions, user.break_duration),
                                          task_priorities)]

\* the key of _sort_tasks_for_day: <<is_urgent, -weight>>
DeadlinePriority(wt, day_date, user_tz) ==
    <<IF wt.task.deadline # None
         /\ DateOf(ToLocal(wt.task.deadline, user_tz)) <= day_date
      THEN 0 ELSE 1,
      -wt.weight>>

KeyLess(a, b) == a[1] < b[1] \/ (a[1] = b[1] /\ a[2] < b[2])

RECURSIVE InsertForDay(_, _, _, _)
InsertForDay(sorted, wt, day_date, user_tz) ==
    IF sorted = <<>> THEN <<wt>>
    ELSE IF KeyLess(DeadlinePriority(wt, day_date, user_tz),
                    DeadlinePriority(Head(sorted), day_date, user_tz))
         THEN <<wt>> \o sorted
         ELSE <<Head(sorted)>> \o InsertForDay(Tail(sorted), wt, day_date, user_tz)

RECURSIVE SortForDayFrom(_, _, _, _)
SortForDayFrom(sorted, rest, day_date, user_tz) ==
    IF rest = <<>> THEN sorted
    ELSE SortForDayFrom(InsertForDay(sorted, Head(rest), day_date, user_tz),
                        Tail(rest), day_date, user_tz)

\* the list as calculate_weights left it, by weight alone
sort_tasks_by_weight_only(tasks, day_date, user_tz) == tasks

\* _sort_tasks_for_day: tasks.sort(key=deadline_priority), stable
sort_tasks_for_day(tasks, day_date, user_tz) == SortForDayFrom(<<>>, tasks, day_date, user_tz)

RECURSIVE WindowRanges(_, _, _)
WindowRanges(time_windows, day_start, user_tz) ==
    IF time_windows = <<>> THEN <<>>
    ELSE <<window_to_range(day_start, Head(time_windows), user_tz)>>
         \o WindowRanges(Tail(time_windows), day_start, user_tz)

\* the windows of the day that starts at day_start that are left after
\* apply_constraints
AvailableBlocks(user, constraints, day_start) ==
    LET day_date_local == DateOf(ToLocal(day_start, user.timezone))
    IN  apply_constraints(
            WindowRanges(parse_study_windows(user.preferred_study_windows),
                         day_start, user.timezone),
            extract_constraints_for_day(constraints, day_date_local, user.timezone))

EnergyGet(energy_by_day, day) ==
    IF day \in DOMAIN energy_by_day THEN energy_by_day[day] ELSE "none"

\* one iteration of the loop of build_weekly_plan: [tasks |-> the task list after
\* the day, plan |-> the DailyPlan]
PlanOneDay(user, tasks, constraints, energy_by_day, reference, offset) ==
    LET week_start == local_day_start(reference, user.timezone)
        day_start == week_start + offset * Day
        day_date_local == DateOf(ToLocal(day_start, user.timezone))
        sorted == sort_tasks_for_day(tasks, day_date_local, user.timezone)
        got == allocate_sessions_for_day(
                   AvailableBlocks(user, constraints, day_start), sorted,
                   EnergyGet(energy_by_day, day_date_local), user, reference)
    IN  [tasks |-> got.tasks, plan |-> [day |-> day_start, sessions |-> got.sessions]]

PlanDays == 7

RECURSIVE BuildDays(_, _, _, _, _, _, _)
BuildDays(user, tasks, constraints, energy_by_day, reference, offset, plans) ==
    IF offset >= PlanDays THEN plans
    ELSE LET r == PlanOneDay(user, tasks, constraints, energy_by_day, reference, offset)
         IN  BuildDays(user, r.tasks, constraints, energy_by_day, reference, offset + 1,
                       Append(plans, r.plan))

\* build_weekly_plan: the days of the WeeklyPlan
build_weekly_plan(user, tasks, constraints, energy_by_day, reference) ==
    BuildDays(user, tasks, constraints, energy_by_day, reference, 0, <<>>)

-----------------------------------------------------------------------------
(* calculate_weights on bounded inputs *)

MaxTasks == 3

\* Tuesday 20:00 UTC of week 1
WRef == 8 * Day + 20 * Hour

\* subject 4 has its exam on the local day of WRef in UTC+8, the day after in UTC
WSubjects ==
    << [id |-> 1, difficulty |-> "EASY", exam_date |-> None],
       [id |-> 2, difficulty |-> "MEDIUM", exam_date |-> None],
       [id |-> 3, difficulty |-> "HARD", exam_date |-> None],
       [id |-> 4, difficulty |-> "MEDIUM", exam_date |-> DateOf(WRef) + 1] >>

WDeadlines == {None, WRef - Day, WRef + Day, WRef + 6 * Day}
WEstimates == {60, 180, 300, 420}
Priorities == {"LOW", "MEDIUM", "HIGH", "CRITICAL"}

OpenTask(id, p, s, d, e) ==
    [id |-> id, subject_id |-> s, estimated_minutes |-> e, deadline |-> d,
     priority |-> p, is_completed |-> FALSE, is_recurring_template |-> FALSE,
     actual_minutes_spent |-> None, timer_minutes_spent |-> 0]

\* tasks that calculate_weights skips, and one with time spent that it keeps
WClosedChoices(id) ==
    {[OpenTask(id, "HIGH", 2, None, 60) EXCEPT !.is_completed = TRUE],
     [OpenTask(id, "HIGH", 2, None, 60) EXCEPT !.is_recurring_template = TRUE],
     [OpenTask(id, "HIGH", 2, None, 60) EXCEPT !.actual_minutes_spent = 45,
                                               !.timer_minutes_spent = 15],
     [OpenTask(id, "HIGH", 2, None, 60) EXCEPT !.actual_minutes_spent = 30]}

\* the first two tasks of the list range over every combination; the later ones
\* over a few tasks that tie with, precede or follow them
WTaskChoices(id) ==
    IF id <= 2
    THEN {OpenTask(id, p, s, d, e) :
             p \in Priorities, s \in {None, 1, 2, 3, 4}, d \in WDeadlines,
             e \in WEstimates}
         \cup WClosedChoices(id)
    ELSE {OpenTask(id, "HIGH", 2, None, 60),
          OpenTask(id, "CRITICAL", 1, None, 60),
          [OpenTask(id, "LOW", None, WRef + Day, 180) EXCEPT !.is_completed = TRUE]}

WStart ==
    /\ wTasks = <<>>
    /\ wTz \in {NoTz, 480}
    /\ wOut = <<>>
    /\ wPc = "input"

\* one more task in the argument list
WAddTask ==
    /\ wPc = "input"
    /\ Len(wTasks) < MaxTasks
    /\ \E t \in WTaskChoices(Len(wTasks) + 1) : wTasks' = Append(wTasks, t)
    /\ UNCHANGED <<wTz, wOut, wPc>>
    /\ UNCHANGED <<interleaveVars, planVars, storeVars, routeVars, recurVars, twinVars, callVars, energyVars>>

\* the call calculate_weights(tasks, subjects, reference, user_tz)
WCalculate ==
    /\ wPc = "input"
    /\ wOut' = calculate_weights(wTasks, WSubjects, WRef, wTz)
    /\ wPc' = "done"
    /\ UNCHANGED <<wTasks, wTz>>
    /\ UNCHANGED <<interleaveVars, planVars, storeVars, routeVars, recurVars, twinVars, callVars, energyVars>>

CIdle ==
    /\ args = <<>>
    /\ frame = <<>>
    /\ pc = "idle"

EIdle ==
    /\ energyRows = {}
    /\ upsert = <<>>

XIdle ==
    /\ response = <<>>
    /\ twin = <<>>

WIdle ==
    /\ wTasks = <<>>
    /\ wTz = NoTz
    /\ wOut = <<>>
    /\ wPc = "idle"

IIdle ==
    /\ iSessions = <<>>
    /\ iPrio = <<>>
    /\ iOut = <<>>
    /\ iPc = "idle"

PIdle ==
    /\ pUser = <<>>
    /\ pConstraints = <<>>
    /\ pEnergy = <<>>
    /\ pRef = 0
    /\ pTasks = <<>>
    /\ pOffset = 0
    /\ pPlans = <<>>

SIdle ==
    /\ dbSessions = {}
    /\ dbTasks = <<>>
    /\ dbNextId = 0
    /\ clock = 0
    /\ gen = <<>>

RIdle ==
    /\ last = <<>>
    /\ ops = 0
    /\ marked = <<>>

TIdle ==
    /\ rTemplate = <<>>
    /\ rInstances = {}
    /\ rNow = 0
    /\ rWeeks = 0
    /\ rLast = <<>>
    /\ rCalls = 0

WInit == WStart /\ IIdle /\ PIdle /\ SIdle /\ RIdle /\ TIdle /\ XIdle /\ CIdle /\ EIdle

WNext == WAddTask \/ WCalculate

SpecWeights == WInit /\ [][WNext]_vars

\* C5: every CRITICAL task of the returned list is placed before every HIGH task
C5_CriticalBeforeHigh ==
    wPc = "done" =>
        \A i, j \in 1..Len(wOut) :
            (wOut[i].task.priority = "CRITICAL" /\ wOut[j].task.priority = "HIGH")
                => i < j

IsCritHard1Day(wt) ==
    /\ wt.task.priority = "CRITICAL"
    /\ wt.task.subject_id \in {3}
    /\ wt.task.deadline = WRef + Day

IsMedMedium6Days(wt) ==
    /\ wt.task.priority = "MEDIUM"
    /\ wt.task.subject_id \in {2, 4}
    /\ wt.task.deadline = WRef + 6 * Day

WFiltered ==
    /\ {wOut[i].task : i \in 1..Len(wOut)} =
           {t \in SeqToSet(wTasks) :
               /\ ~t.is_completed
               /\ ~t.is_recurring_template
               /\ t.estimated_minutes
                    - ((IF t.actual_minutes_spent = None THEN 0
                        ELSE t.actual_minutes_spent) + t.timer_minutes_spent) > 0}
    /\ \A i, j \in 1..Len(wOut) : i # j => wOut[i].task.id # wOut[j].task.id

WSortedStable ==
    \A i, j \in 1..Len(wOut) :
        i < j => /\ wOut[i].weight >= wOut[j].weight
                 /\ wOut[i].weight = wOut[j].weight => wOut[i].task.id < wOut[j].task.id

\* C6 as stated: the returned list is exactly the kept tasks, in non-increasing
\* weight order with ties in input order, and a CRITICAL task on a hard subject
\* due in 1 day precedes and outweighs a MEDIUM task on a medium subject due in
\* 6 days
C6_Original ==
    wPc = "done" =>
        /\ WFiltered
        /\ WSortedStable
        /\ \A i, j \in 1..Len(wOut) :
               (IsCritHard1Day(wOut[i]) /\ IsMedMedium6Days(wOut[j]))
                   => (i < j /\ wOut[i].weight > wOut[j].weight)

\* C6 amended: the same, with the CRITICAL task preceding and outweighing the
\* MEDIUM task whenever the MEDIUM task's estimated minutes exceed the CRITICAL
\* task's by less than 240 (the test uses 180 and 60)
C6_SortedStableFiltered ==
    wPc = "done" =>
        /\ WFiltered
        /\ WSortedStable
        /\ \A i, j \in 1..Len(wOut) :
               (/\ IsCritHard1Day(wOut[i])
                /\ IsMedMedium6Days(wOut[j])
                /\ wOut[j].task.estimated_minutes - wOut[i].task.estimated_minutes < 240)
                   => (i < j /\ wOut[i].weight > wOut[j].weight)

\* the test's two tasks (180 and 60 minutes) were weighed, together with a task
\* that is skipped and a tie kept in input order
C6_Witness ==
    /\ wPc = "done"
    /\ Len(wTasks) = 3
    /\ Len(wOut) = 2
    /\ IsMedMedium6Days(wOut[2]) /\ wOut[2].task.estimated_minutes = 60
    /\ IsCritHard1Day(wOut[1]) /\ wOut[1].task.estimated_minutes = 180
    /\ wOut[1].task.id = 2
    /\ wTasks[3].is_completed

-----------------------------------------------------------------------------
(* interleave_subjects on bounded inputs *)

MaxBlocks == 4

\* no map (None or {}), the map _allocate_sessions_for_day builds from
\* priority.value, and a map of upper-case names
IPrioChoices ==
    { <<>>,
      [t \in {1, 2} |-> IF t = 1 THEN PriorityValue("CRITICAL") ELSE PriorityValue("HIGH")],
      [t \in {1, 2} |-> IF t = 1 THEN "CRITICAL" ELSE "HIGH"] }

IStart ==
    /\ iSessions = <<>>
    /\ iPrio \in IPrioChoices
    /\ iOut = <<>>
    /\ iPc = "input"

\* one more StudyBlock in the argument list
IAddSession ==
    /\ iPc = "input"
    /\ Len(iSessions) < MaxBlocks
    /\ \E subj \in {1, 2}, task \in {None, 1, 2} :
          iSessions' = Append(iSessions,
              [start_time |-> 100 * Len(iSessions), end_time |-> 100 * Len(iSessions) + 50,
               subject_id |-> subj, task_id |-> task])
    /\ UNCHANGED <<iPrio, iOut, iPc>>
    /\ UNCHANGED <<weightVars, planVars, storeVars, routeVars, recurVars, twinVars, callVars, energyVars>>

\* the call interleave_subjects(sessions, task_priorities)
IInterleave ==
    /\ iPc = "input"
    /\ iOut' = interleave_subjects(iSessions, iPrio)
    /\ iPc' = "done"
    /\ UNCHANGED <<iSessions, iPrio>>
    /\ UNCHANGED <<weightVars, planVars, storeVars, routeVars, recurVars, twinVars, callVars, energyVars>>

IInit == IStart /\ WIdle /\ PIdle /\ SIdle /\ RIdle /\ TIdle /\ XIdle /\ CIdle /\ EIdle

INext == IAddSession \/ IInterleave

SpecInterleave == IInit /\ [][INext]_vars

\* C7: called without a task-priority map, interleave_subjects puts the
\* different-subject session of positions i, i+1, i+2 = (a, a, b) at position i+1
C7_InterleavesWithoutPriorities ==
    (iPc = "done" /\ DOMAIN iPrio = {}) =>
        \A i \in 1..(Len(iSessions) - 2) :
            (/\ iSessions[i].subject_id = iSessions[i + 1].subject_id
             /\ iSessions[i + 2].subject_id # iSessions[i].subject_id)
                => iOut[i + 1].subject_id = iSessions[i + 2].subject_id

-----------------------------------------------------------------------------
(* build_weekly_plan on bounded inputs *)

\* fixed UTC offsets: New York (standard time), UTC, Singapore
TzChoices == {-300, 0, 480}

\* Tuesday of week 1 at 01:00, 09:30 and 20:00 UTC
PRefChoices == {8 * Day + 1 * Hour, 8 * Day + 9 * Hour + 30, 8 * Day + 20 * Hour}

Legacy(name) == [type |-> "legacy", name |-> name, start |-> None, end |-> None]
Preset(name) == [type |-> "preset", name |-> name, start |-> None, end |-> None]
Custom(start, end) == [type |-> "custom", name |-> "", start |-> start, end |-> end]

PWindowChoices ==
    { <<Legacy("morning"), Legacy("evening")>>,
      <<Preset("morning")>>,
      <<Preset("evening"), Preset("night")>>,
      <<Custom(<<8, 0>>, <<10, 0>>), Preset("afternoon")>>,
      <<Custom(<<18, 30>>, <<20, 15>>)>>,
      <<>>,
      <<Preset("dawn"), Custom(<<24, 0>>, <<10>>), Custom(<<8, 0>>, <<>>)>> }

Recurring(days, start, end) ==
    [is_recurring |-> TRUE, days_of_week |-> days, start_time |-> start, end_time |-> end,
     start_datetime |-> None, end_datetime |-> None]

OneOff(start, end) ==
    [is_recurring |-> FALSE, days_of_week |-> {}, start_time |-> None, end_time |-> None,
     start_datetime |-> start, end_datetime |-> end]

\* no constraint; a class every day 08:00-09:00 local; a block 23:00-23:30 local
\* on Tuesdays; a one-off appointment Wednesday 13:00-14:00 UTC of week 1
PConstraintChoices ==
    { <<>>,
      <<Recurring(0..6, 8 * Hour, 9 * Hour)>>,
      <<Recurring({1}, 23 * Hour, 23 * Hour + 30)>>,
      <<OneOff(9 * Day + 13 * Hour, 9 * Day + 14 * Hour)>> }

PSubjects ==
    << [id |-> 1, difficulty |-> "HARD", exam_date |-> None],
       [id |-> 2, difficulty |-> "MEDIUM", exam_date |-> None] >>

\* the tasks of scenario S1 (180 minutes due in 2 days, 120 minutes due in 5
\* days), and a heavier week
PTaskChoices(reference) ==
    { << OpenTask(1, "HIGH", 1, reference + 2 * Day, 180),
         OpenTask(2, "MEDIUM", 2, reference + 5 * Day, 120) >>,
      << OpenTask(1, "CRITICAL", 1, reference + Day, 300),
         OpenTask(2, "HIGH", 1, None, 420),
         OpenTask(3, "LOW", 2, reference + 3 * Day, 240) >> }

PStart ==
    /\ \E tz \in TzChoices, windows \in PWindowChoices,
          max_session_length \in {60, 90}, break_duration \in {5, 15} :
          pUser = [id |-> 1, timezone |-> tz, preferred_study_windows |-> windows,
                   max_session_length |-> max_session_length,
                   break_duration |-> break_duration]
    /\ pConstraints \in PConstraintChoices
    /\ pRef \in PRefChoices
    /\ pEnergy \in {<<>>, [d \in {DateOf(ToLocal(pRef, pUser.timezone))} |-> "low"]}
    /\ \E tasks \in PTaskChoices(pRef) :
          pTasks = calculate_weights(tasks, PSubjects, pRef, pUser.timezone)
    /\ pOffset = 0
    /\ pPlans = <<>>

\* one iteration of "for offset in range(7)"
PPlanDay ==
    /\ pUser # <<>>
    /\ pOffset < PlanDays
    /\ LET r == PlanOneDay(pUser, pTasks, pConstraints, pEnergy, pRef, pOffset)
       IN  /\ pTasks' = r.tasks
           /\ pPlans' = Append(pPlans, r.plan)
    /\ pOffset' = pOffset + 1
    /\ UNCHANGED <<pUser, pConstraints, pEnergy, pRef>>
    /\ UNCHANGED <<weightVars, interleaveVars, storeVars, routeVars, recurVars, twinVars, callVars, energyVars>>

PInit == PStart /\ WIdle /\ IIdle /\ SIdle /\ RIdle /\ TIdle /\ XIdle /\ CIdle /\ EIdle

PNext == PPlanDay

SpecPlan == PInit /\ [][PNext]_vars

PlanBlocks == UNION {SeqToSet(pPlans[d].sessions) : d \in 1..Len(pPlans)}

\* the UTC interval a constraint blocks on the local day `day`, as a set of at
\* most one <<start, end>>
ConstraintIntervalOn(c, day, tz) ==
    IF c.is_recurring
    THEN IF Weekday(day) \in c.days_of_week
         THEN {<<ToUtc(day * Day + c.start_time, tz),
                 ToUtc(day * Day + (IF c.end_time <= c.start_time THEN c.end_time + Day
                                    ELSE c.end_time), tz)>>}
         ELSE {}
    ELSE IF /\ DateOf(ToLocal(c.start_datetime, tz)) <= day
            /\ DateOf(ToLocal(c.end_datetime, tz)) >= day
         THEN {<<c.start_datetime, c.end_datetime>>}
         ELSE {}

\* C8: no block of the plan intersects the interval of a constraint that
\* applies to the block's local day
C8_NoBlockInConstraint ==
    \A b \in PlanBlocks : \A i \in 1..Len(pConstraints) :
        \A iv \in ConstraintIntervalOn(pConstraints[i],
                       DateOf(ToLocal(b.start_time, pUser.timezone)), pUser.timezone) :
            b.end_time <= iv[1] \/ b.start_time >= iv[2]

\* C9: every block of the plan lies inside one of its day's study windows that
\* are left after constraint filtering
C9_BlocksInsideWindows ==
    \A d \in 1..Len(pPlans) : \A k \in 1..Len(pPlans[d].sessions) :
        \E w \in SeqToSet(AvailableBlocks(pUser, pConstraints, pPlans[d].day)) :
            /\ pPlans[d].sessions[k].start_time >= w[1]
            /\ pPlans[d].sessions[k].end_time <= w[2]

\* C10: no block of the plan starts before the reference instant
C10_NoBlockBeforeReference ==
    \A b \in PlanBlocks : b.start_time >= pRef

-----------------------------------------------------------------------------
(* POST /schedule/generate: the operations on the store                     *)
(*                                                                         *)
(* A row of study_sessions is a record [id, user_id, start_time, end_time,  *)
(* status, task_id, subject_id, is_pinned, generated_by, notes].  The       *)
(* columns are                                                              *)
(* those of the migrations and of the routes: status has the value         *)
(* IN_PROGRESS (alembic 082a320e62e1) and is_pinned is a non-null boolean   *)
(* (alembic a1b2c3d4e5f6).                                                  *)

\* _round_to_nearest_minutes: times have no seconds here, so minute / minutes
\* is never half-way between two integers for minutes = 5; the hour is kept
round_to_nearest_minutes(dt, minutes) ==
    LET minute == dt % Hour
        rounded_minutes == ((2 * minute + minutes) \div (2 * minutes)) * minutes
    IN  dt - minute + (rounded_minutes % 60)

sessions_overlap(start1, end1, start2, end2) ==
    ~ (end1 <= start2 \/ start1 >= end2)

\* a cleanup whose thresholds include the sessions that end at the threshold
cleanup_stale_sessions_inclusive(rows, user_id, now_utc) ==
    LET stale_threshold == now_utc - 2 * Hour
        missed_threshold == now_utc - 15
        stale_in_progress == {s \in rows : /\ s.user_id = user_id
                                           /\ s.status = "IN_PROGRESS"
                                           /\ s.end_time <= stale_threshold}
        missed_planned == {s \in rows : /\ s.user_id = user_id
                                        /\ s.status = "PLANNED"
                                        /\ s.end_time <= missed_threshold}
    IN  {<<s.id, "PARTIAL">> : s \in stale_in_progress}
        \cup {<<s.id, "SKIPPED">> : s \in missed_planned}

\* the status updates of _cleanup_stale_sessions, as pairs <<id, new status>>
cleanup_stale_sessions(rows, user_id, now_utc) ==
    LET stale_threshold == now_utc - 2 * Hour
        missed_threshold == now_utc - 15
        stale_in_progress == {s \in rows : /\ s.user_id = user_id
                                           /\ s.status = "IN_PROGRESS"
                                           /\ s.end_time < stale_threshold}
        missed_planned == {s \in rows : /\ s.user_id = user_id
                                        /\ s.status = "PLANNED"
                                        /\ s.end_time < missed_threshold}
    IN  {<<s.id, "PARTIAL">> : s \in stale_in_progress}
        \cup {<<s.id, "SKIPPED">> : s \in missed_planned}

calculate_new_deadline(deadline, today_start, tomorrow_start, ref) ==
    LET new_deadline == IF (ref % Day) \div Hour >= 20
                        THEN tomorrow_start + 23 * Hour + 59
                        ELSE today_start + 23 * Hour + 59
    IN  IF (deadline % Day) \div Hour # 23 \/ deadline % Hour # 59
        THEN Midnight(new_deadline) + Min((deadline % Day) \div Hour, 23) * Hour
                                    + Min(deadline % Hour, 59)
        ELSE new_deadline

escalate_priority(priority) ==
    CASE priority = "LOW" -> "MEDIUM"
      [] priority = "MEDIUM" -> "HIGH"
      [] priority = "HIGH" -> "CRITICAL"
      [] OTHER -> priority

\* the tasks that the loop of _auto_reschedule_overdue_tasks reschedules
IsRescheduled(task, ref) ==
    /\ ~ task.is_completed
    /\ ~ task.is_recurring_template
    /\ task.deadline # None
    /\ LET days_overdue == DateOf(ref) - DateOf(task.deadline)
       IN  days_overdue > 0 /\ days_overdue <= 7

\* _auto_reschedule_overdue_tasks: the task rows after the loop
auto_reschedule_overdue_tasks(tasks, reference) ==
    LET today_start == Midnight(reference)
        tomorrow_start == today_start + Day
    IN  [i \in 1..Len(tasks) |->
            IF IsRescheduled(tasks[i], reference)
            THEN [tasks[i] EXCEPT
                     !.deadline = calculate_new_deadline(tasks[i].deadline, today_start,
                                                         tomorrow_start, reference),
                     !.priority = escalate_priority(tasks[i].priority)]
            ELSE tasks[i]]

\* generate_weekly_schedule after the rescheduling: the days of the plan
generate_weekly_schedule(user, subjects, tasks, constraints, energy_map, ref) ==
    build_weekly_plan(user, calculate_weights(tasks, subjects, ref, user.timezone),
                      constraints, energy_map, ref)

\* the filter of the preserved_sessions query of _persist_sessions_to_db
IsPreserved(s, user_id, window_start, window_end) ==
    /\ s.user_id = user_id
    /\ s.start_time >= window_start
    /\ s.start_time < window_end
    /\ (s.status \in {"COMPLETED", "PARTIAL", "IN_PROGRESS"} \/ s.is_pinned)

\* the filter of the delete of _persist_sessions_to_db, without the pinned test
IsDeletedIgnoringPin(s, user_id, window_start, window_end) ==
    /\ s.user_id = user_id
    /\ s.start_time >= window_start
    /\ s.start_time < window_end
    /\ s.status \in {"PLANNED", "SKIPPED"}

\* the filter of the delete of _persist_sessions_to_db, restricted to SKIPPED rows
IsDeletedOnlySkipped(s, user_id, window_start, window_end) ==
    /\ s.user_id = user_id
    /\ s.start_time >= window_start
    /\ s.start_time < window_end
    /\ s.status \in {"SKIPPED"}
    /\ ~ s.is_pinned

\* the filter of the delete of _persist_sessions_to_db
IsDeleted(s, user_id, window_start, window_end) ==
    /\ s.user_id = user_id
    /\ s.start_time >= window_start
    /\ s.start_time < window_end
    /\ s.status \in {"PLANNED", "SKIPPED"}
    /\ ~ s.is_pinned

RECURSIVE AllBlocks(_)
AllBlocks(days) ==
    IF days = <<>> THEN <<>> ELSE Head(days).sessions \o AllBlocks(Tail(days))

\* the blocks that the insert loop of _persist_sessions_to_db adds, in order
BlocksToInsert(days, preserved_sessions) ==
    LET has_overlap(block) ==
            \E preserved \in preserved_sessions :
                sessions_overlap(block.start_time, block.end_time,
                                 preserved.start_time, preserved.end_time)
        keep(block) == ~ has_overlap(block)
    IN  SelectSeq(AllBlocks(days), keep)

\* the rows of the blocks, with the ids that the flush of the commit assigns
NewRows(blocks, user_id, first_id) ==
    {[id |-> first_id + i - 1, user_id |-> user_id,
      start_time |-> blocks[i].start_time, end_time |-> blocks[i].end_time,
      status |-> "PLANNED", task_id |-> blocks[i].task_id,
      subject_id |-> blocks[i].subject_id, is_pinned |-> FALSE,
      generated_by |-> "weekly", notes |-> None] : i \in 1..Len(blocks)}

\* the rows after status updates (pairs <<id, status>>) and deletes (ids)
ApplyWrites(rows, upd, del) ==
    {IF \E u \in upd : u[1] = s.id
     THEN [s EXCEPT !.status = (CHOOSE u \in upd : u[1] = s.id)[2]]
     ELSE s : s \in {x \in rows : x.id \notin del}}

-----------------------------------------------------------------------------
(* POST /schedule/generate: concurrent requests of one user                 *)
(*                                                                         *)
(* Every request has its own db session (get_db), autoflush off.  The      *)
(* engine sets no isolation level: a statement reads the committed rows    *)
(* and the writes of its own transaction; a statement that writes a row    *)
(* that another open transaction has written waits for that transaction.   *)

MaxRequests == 2
Requests == 1..MaxRequests

\* Tuesday 00:00 UTC of week 1
STuesday == 8 * Day

SUser ==
    [id |-> 1, timezone |-> 0,
     preferred_study_windows |-> <<Custom(<<0, 0>>, <<2, 0>>), Preset("morning")>>,
     max_session_length |-> 90, break_duration |-> 15]

Row(id, user_id, start, end, status, is_pinned, generated_by) ==
    [id |-> id, user_id |-> user_id, start_time |-> start, end_time |-> end,
     status |-> status, task_id |-> 1, subject_id |-> 1, is_pinned |-> is_pinned,
     generated_by |-> generated_by, notes |-> None]

\* the rows of the user that the store may hold before the requests
SRowPool ==
    { Row(1, 1, STuesday + 7 * Hour, STuesday + 8 * Hour + 30, "COMPLETED", FALSE, "weekly"),
      Row(2, 1, STuesday - 30, STuesday + Hour, "IN_PROGRESS", FALSE, "weekly"),
      Row(3, 1, STuesday + 7 * Hour, STuesday + 8 * Hour + 30, "PLANNED", FALSE, "weekly"),
      Row(4, 1, STuesday + 8 * Hour, STuesday + 9 * Hour, "PLANNED", TRUE, "manual"),
      Row(5, 1, STuesday + Day + 7 * Hour, STuesday + Day + 8 * Hour, "SKIPPED", TRUE, "weekly"),
      Row(6, 1, STuesday + 2 * Day + 7 * Hour, STuesday + 2 * Day + 8 * Hour, "SKIPPED", FALSE,
          "weekly") }

\* a row of another user, always in the store
SForeignRow ==
    Row(7, 2, STuesday + 7 * Hour, STuesday + 8 * Hour + 30, "PLANNED", FALSE, "weekly")

\* the id sequence continues after the rows above
SFirstId == Cardinality(SRowPool) + 2

\* Tuesday 00:10, 03:00 (two hours after the end of session 2), 09:15 (fifteen
\* minutes after the end of session 4) and 09:30
SClockChoices ==
    {STuesday + 10, STuesday + 3 * Hour, STuesday + 9 * Hour + 15, STuesday + 9 * Hour + 30}

\* the tasks of scenario S1, and the same with the first task three days overdue
STaskChoices ==
    { << OpenTask(1, "HIGH", 1, STuesday + 2 * Day + 18 * Hour, 180),
         OpenTask(2, "MEDIUM", 2, STuesday + 5 * Day + 18 * Hour, 120) >>,
      << OpenTask(1, "HIGH", 1, STuesday - 3 * Day + 18 * Hour, 180),
         OpenTask(2, "MEDIUM", 2, STuesday + 5 * Day + 18 * Hour, 120) >> }

\* before_sessions and before_tasks record the committed rows when the request
\* began, after the requests that had committed by then
GenIdle ==
    [pc |-> "idle", now_utc |-> None, reference |-> None, upd |-> {}, del |-> {},
     plan |-> <<>>, preserved_sessions |-> {}, inserted |-> {},
     before_sessions |-> {}, before_tasks |-> <<>>, after |-> {}]

SStart ==
    /\ clock \in SClockChoices
    /\ \E rows \in SUBSET SRowPool : dbSessions = rows \cup {SForeignRow}
    /\ dbTasks \in STaskChoices
    /\ dbNextId = SFirstId
    /\ gen = [r \in Requests |-> GenIdle]

\* the ids of the rows that the open transactions of the other requests wrote
LockedByOthers(r) ==
    UNION {{u[1] : u \in gen[q].upd} \cup gen[q].del : q \in Requests \ {r}}

\* what a statement of request r reads
View(r) == ApplyWrites(dbSessions, gen[r].upd, gen[r].del)

\* generate_week_plan up to the flush of _cleanup_stale_sessions
GenCleanup(r) ==
    /\ gen[r].pc = "idle"
    /\ LET upd == cleanup_stale_sessions(View(r), SUser.id, clock)
       IN  /\ {u[1] : u \in upd} \cap LockedByOthers(r) = {}
           /\ gen' = [gen EXCEPT ![r] =
                        [@ EXCEPT !.pc = "cleaned", !.now_utc = clock,
                                  !.reference = round_to_nearest_minutes(clock, 5),
                                  !.upd = upd,
                                  !.before_sessions = dbSessions,
                                  !.before_tasks = dbTasks,
                                  !.after = {q \in Requests : gen[q].pc = "done"}]]
    /\ UNCHANGED <<dbSessions, dbTasks, dbNextId, clock>>
    /\ UNCHANGED <<weightVars, interleaveVars, planVars, routeVars, recurVars, twinVars, callVars, energyVars>>

\* generate_weekly_schedule: _auto_reschedule_overdue_tasks with its commit, then
\* the plan
GenPlan(r) ==
    /\ gen[r].pc = "cleaned"
    /\ LET rescheduled_tasks == {i \in 1..Len(dbTasks) :
                                    IsRescheduled(dbTasks[i], gen[r].reference)}
           tasks == auto_reschedule_overdue_tasks(dbTasks, gen[r].reference)
       IN  /\ dbTasks' = tasks
           /\ dbSessions' = IF rescheduled_tasks # {}
                            THEN ApplyWrites(dbSessions, gen[r].upd, {})
                            ELSE dbSessions
           /\ gen' = [gen EXCEPT ![r] =
                        [@ EXCEPT !.pc = "planned",
                                  !.upd = IF rescheduled_tasks # {} THEN {} ELSE @,
                                  !.plan = generate_weekly_schedule(
                                               SUser, PSubjects, tasks, <<>>, <<>>,
                                               gen[r].reference)]]
    /\ UNCHANGED <<dbNextId, clock>>
    /\ UNCHANGED <<weightVars, interleaveVars, planVars, routeVars, recurVars, twinVars, callVars, energyVars>>

window_start(plan) == plan[1].day
window_end(plan) == plan[Len(plan)].day + Day

\* _persist_sessions_to_db: the preserved_sessions query
PersistQuery(r) ==
    /\ gen[r].pc = "planned"
    /\ gen[r].plan # <<>>
    /\ gen' = [gen EXCEPT ![r] =
                 [@ EXCEPT !.pc = "queried",
                           !.preserved_sessions =
                               {s \in View(r) : IsPreserved(s, SUser.id,
                                                    window_start(gen[r].plan),
                                                    window_end(gen[r].plan))}]]
    /\ UNCHANGED <<dbSessions, dbTasks, dbNextId, clock>>
    /\ UNCHANGED <<weightVars, interleaveVars, planVars, routeVars, recurVars, twinVars, callVars, energyVars>>

\* _persist_sessions_to_db: the delete
PersistDelete(r) ==
    /\ gen[r].pc = "queried"
    /\ LET del == {s.id : s \in {x \in View(r) : IsDeleted(x, SUser.id,
                                                    window_start(gen[r].plan),
                                                    window_end(gen[r].plan))}}
       IN  /\ del \cap LockedByOthers(r) = {}
           /\ gen' = [gen EXCEPT ![r] = [@ EXCEPT !.pc = "deleted", !.del = del]]
    /\ UNCHANGED <<dbSessions, dbTasks, dbNextId, clock>>
    /\ UNCHANGED <<weightVars, interleaveVars, planVars, routeVars, recurVars, twinVars, callVars, energyVars>>

\* _persist_sessions_to_db: the insert loop and the commit
PersistCommit(r) ==
    /\ gen[r].pc = "deleted"
    /\ LET blocks == BlocksToInsert(gen[r].plan, gen[r].preserved_sessions)
           rows == NewRows(blocks, SUser.id, dbNextId)
       IN  /\ dbSessions' = ApplyWrites(dbSessions, gen[r].upd, gen[r].del) \cup rows
           /\ dbNextId' = dbNextId + Len(blocks)
           /\ gen' = [gen EXCEPT ![r] =
                        [@ EXCEPT !.pc = "done", !.upd = {}, !.del = {},
                                  !.inserted = {s.id : s \in rows}]]
    /\ UNCHANGED <<dbTasks, clock>>
    /\ UNCHANGED <<weightVars, interleaveVars, planVars, routeVars, recurVars, twinVars, callVars, energyVars>>

\* _persist_sessions_to_db: the store raises in the delete or in the flush of the
\* commit; "except Exception: db.rollback(); raise"
PersistFail(r) ==
    /\ gen[r].pc \in {"queried", "deleted"}
    /\ gen' = [gen EXCEPT ![r] = [@ EXCEPT !.pc = "failed", !.upd = {}, !.del = {}]]
    /\ UNCHANGED <<dbSessions, dbTasks, dbNextId, clock>>
    /\ UNCHANGED <<weightVars, interleaveVars, planVars, routeVars, recurVars, twinVars, callVars, energyVars>>

SInit == SStart /\ WIdle /\ IIdle /\ PIdle /\ RIdle /\ TIdle /\ XIdle /\ CIdle /\ EIdle

SNext ==
    \E r \in Requests :
        \/ GenCleanup(r)
        \/ GenPlan(r)
        \/ PersistQuery(r)
        \/ PersistDelete(r)
        \/ PersistCommit(r)
        \/ PersistFail(r)

SpecStore == SInit /\ [][SNext]_vars

\* the sessions of the user that C1 speaks of: active, completed or pinned when
\* request r began
ProtectedBefore(r) ==
    {s \in gen[r].before_sessions :
        /\ s.user_id = SUser.id
        /\ (s.status \in {"COMPLETED", "PARTIAL", "IN_PROGRESS"} \/ s.is_pinned)}

SameButStatus(s, t) ==
    /\ t.id = s.id
    /\ t.start_time = s.start_time
    /\ t.end_time = s.end_time
    /\ t.task_id = s.task_id
    /\ t.subject_id = s.subject_id
    /\ t.is_pinned = s.is_pinned

\* C1 as stated: after a generate call, every session that was COMPLETED,
\* PARTIAL, IN_PROGRESS or pinned before the call exists with the same id, times,
\* status, task, subject and pinned flag
C1_Original ==
    \A r \in Requests : gen[r].pc = "done" =>
        \A s \in ProtectedBefore(r) :
            \E t \in dbSessions : SameButStatus(s, t) /\ t.status = s.status

\* the status changes of the cleanup pass: a stale IN_PROGRESS session becomes
\* PARTIAL, a missed PLANNED session becomes SKIPPED
IsCleanupChange(s, t) ==
    \/ s.status = "IN_PROGRESS" /\ s.end_time < clock - 2 * Hour /\ t.status = "PARTIAL"
    \/ s.status = "PLANNED" /\ s.end_time < clock - 15 /\ t.status = "SKIPPED"

\* C1: after a generate call (committed or failed), every session that was
\* COMPLETED, PARTIAL, IN_PROGRESS or pinned before the call exists with the same
\* id, times, task, subject and pinned flag, and with the same status unless the
\* cleanup pass changed it
C1_PreservedUpToCleanup ==
    \A r \in Requests : gen[r].pc \in {"done", "failed"} =>
        \A s \in ProtectedBefore(r) :
            \E t \in dbSessions :
                /\ SameButStatus(s, t)
                /\ (t.status = s.status \/ IsCleanupChange(s, t))

\* a request committed a plan: it inserted rows, deleted an unpinned PLANNED row
\* that was there before, kept a COMPLETED row, and kept a pinned row whose
\* status the cleanup changed
C1_Witness ==
    \E r \in Requests :
        /\ gen[r].pc = "done"
        /\ gen[r].inserted # {}
        /\ \E s \in gen[r].before_sessions :
              /\ s.user_id = SUser.id /\ s.status = "PLANNED" /\ ~ s.is_pinned
              /\ \A t \in dbSessions : t.id # s.id
        /\ \E s \in ProtectedBefore(r) : s.status = "COMPLETED" /\ s \in dbSessions
        /\ \E s \in ProtectedBefore(r) : \E t \in dbSessions :
              /\ s.is_pinned /\ s.status = "PLANNED"
              /\ SameButStatus(s, t) /\ t.status = "SKIPPED"

IsProtected(s) == s.status \in {"COMPLETED", "PARTIAL", "IN_PROGRESS"} \/ s.is_pinned

\* C2: after a generate call, no row that the call inserted overlaps a session of
\* the same user that is COMPLETED, PARTIAL, IN_PROGRESS or pinned
C2_NoOverlapWithPreserved ==
    \A r \in Requests : gen[r].pc = "done" =>
        \A n \in dbSessions : n.id \in gen[r].inserted =>
            \A s \in dbSessions :
                (s.user_id = n.user_id /\ s.id # n.id /\ IsProtected(s))
                    => ~ (n.start_time < s.end_time /\ n.end_time > s.start_time)

\* the unpinned PLANNED rows of the user inside the plan window of request r
PlannedInWindow(r) ==
    {s \in dbSessions :
        /\ s.user_id = SUser.id
        /\ s.status = "PLANNED" /\ ~ s.is_pinned
        /\ s.start_time >= window_start(gen[r].plan)
        /\ s.start_time < window_end(gen[r].plan)}

\* C3: when all the concurrent generate requests have committed, the unpinned
\* PLANNED rows in the plan window are rows of one request only, and no two of
\* them overlap or coincide
C3_SinglePlanAfterConcurrentGenerates ==
    (\A r \in Requests : gen[r].pc = "done") =>
        \E r \in Requests :
            /\ \A s \in PlannedInWindow(r) : s.id \in gen[r].inserted
            /\ \A s, t \in PlannedInWindow(r) :
                  s.id # t.id => ~ sessions_overlap(s.start_time, s.end_time,
                                                    t.start_time, t.end_time)

\* C4: when a generate request fails in the persistence step and no other
\* request has begun, the session rows and the task rows are those of before the
\* request
C4_FailureLeavesNoWrites ==
    \A r \in Requests :
        (gen[r].pc = "failed" /\ \A q \in Requests \ {r} : gen[q].pc = "idle")
            => (dbSessions = gen[r].before_sessions /\ dbTasks = gen[r].before_tasks)

\* the PLANNED sessions of the user, by start, end, task and subject
PlannedKeys(rows) ==
    {<<s.start_time, s.end_time, s.task_id, s.subject_id>> :
        s \in {x \in rows : x.user_id = SUser.id /\ x.status = "PLANNED"}}

PlannedCount(rows) ==
    Cardinality({x \in rows : x.user_id = SUser.id /\ x.status = "PLANNED"})

ProtectedRows(rows) == {x \in rows : x.user_id = SUser.id /\ IsProtected(x)}

\* request r ran after request q had committed, and no other request has begun
RanAfter(r, q) ==
    /\ r # q
    /\ gen[r].pc = "done"
    /\ q \in gen[r].after
    /\ \A p \in Requests \ {r, q} : gen[p].pc = "idle"

-----------------------------------------------------------------------------
(* The session routes: PATCH /schedule/sessions/{id}, POST /schedule/sessions, *)
(* POST /schedule/sessions/{id}/start, and the propagation to the task         *)
(*                                                                         *)
(* A StudySessionUpdate payload is a record [status, notes, start_time,     *)
(* end_time, is_pinned], None for a time that is not supplied, NoStatus for *)
(* a status that is not supplied; notes is the number of a text or None,    *)
(* is_pinned is 1 (true), 0 (false) or None.  A task row                    *)
(* has, next to the columns the planner reads, status, completed_at and     *)
(* prevent_auto_completion (alembic 281e16dcf539, c2c428812587).            *)

\* Python None for an optional status
NoStatus == "none"

\* _calculate_missing_time: the payload with the missing time filled in
calculate_missing_time(session, payload) ==
    IF payload.start_time # None /\ payload.end_time = None
    THEN [payload EXCEPT !.end_time = payload.start_time
                                        + (session.end_time - session.start_time)]
    ELSE IF payload.end_time # None /\ payload.start_time = None
    THEN [payload EXCEPT !.start_time = payload.end_time
                                          - (session.end_time - session.start_time)]
    ELSE payload

\* _validate_session_times: TRUE when it does not raise
validate_session_times(payload) ==
    (payload.start_time # None /\ payload.end_time # None)
        => payload.start_time < payload.end_time

\* a conflict query that matches PLANNED sessions only
check_session_conflict_planned_only(rows, user_id, session_id, start_time, end_time) ==
    {s \in rows : /\ s.user_id = user_id
                  /\ s.id # session_id
                  /\ s.status = "PLANNED"
                  /\ start_time < s.end_time
                  /\ end_time > s.start_time}

\* a conflict query that matches the sessions of every user
check_session_conflict_any_user(rows, user_id, session_id, start_time, end_time) ==
    {s \in rows : /\ s.id # session_id
                  /\ s.status # "COMPLETED"
                  /\ start_time < s.end_time
                  /\ end_time > s.start_time}

\* _check_session_conflict: the rows the query matches
check_session_conflict(rows, user_id, session_id, start_time, end_time) ==
    {s \in rows : /\ s.user_id = user_id
                  /\ s.id # session_id
                  /\ s.status # "COMPLETED"
                  /\ start_time < s.end_time
                  /\ end_time > s.start_time}

is_session_shortening(session, payload) ==
    IF payload.end_time # None /\ payload.start_time = None
    THEN payload.end_time < session.end_time
    ELSE IF payload.start_time # None /\ payload.end_time = None
    THEN payload.start_time > session.start_time
    ELSE FALSE

\* _update_session_times_shortening: [code |-> 200 or the status of the
\* HTTPException, session |-> the session object afterwards]
update_session_times_shortening(session, payload) ==
    LET filled == calculate_missing_time(session, payload)
        duration_minutes == filled.end_time - filled.start_time
    IN  IF ~ validate_session_times(filled) THEN [code |-> 400, session |-> session]
        ELSE IF duration_minutes < 5 \/ duration_minutes > 480
        THEN [code |-> 400, session |-> session]
        ELSE [code |-> 200,
              session |-> [session EXCEPT !.start_time = filled.start_time,
                                          !.end_time = filled.end_time]]

\* _update_session_times
update_session_times(session, payload, rows, user_id, session_id) ==
    LET filled == calculate_missing_time(session, payload)
    IN  IF ~ validate_session_times(filled) THEN [code |-> 400, session |-> session]
        ELSE IF check_session_conflict(rows, user_id, session_id,
                                       filled.start_time, filled.end_time) # {}
        THEN [code |-> 409, session |-> session]
        ELSE [code |-> 200,
              session |-> [session EXCEPT !.start_time = filled.start_time,
                                          !.end_time = filled.end_time]]

\* _update_task_completion_status: the task afterwards
update_task_completion_status_no_flag(task, total_time, estimated_minutes, now) ==
    IF total_time >= estimated_minutes
    THEN IF ~ task.is_completed
         THEN [task EXCEPT !.is_completed = TRUE, !.status = "completed",
                           !.completed_at = IF task.completed_at = None THEN now ELSE @]
         ELSE task
    ELSE IF task.is_completed /\ total_time < estimated_minutes
    THEN LET was_recently_manually_completed ==
                 task.completed_at # None /\ now - task.completed_at < Hour
         IN  IF ~ was_recently_manually_completed /\ task.status = "completed"
             THEN [task EXCEPT !.is_completed = FALSE, !.status = "todo",
                               !.completed_at = None]
             ELSE task
    ELSE task

update_task_completion_status(task, total_time, estimated_minutes, now) ==
    IF total_time >= estimated_minutes
    THEN IF ~ task.is_completed /\ ~ task.prevent_auto_completion
         THEN [task EXCEPT !.is_completed = TRUE, !.status = "completed",
                           !.completed_at = IF task.completed_at = None THEN now ELSE @]
         ELSE task
    ELSE IF task.is_completed /\ total_time < estimated_minutes
    THEN LET was_recently_manually_completed ==
                 task.completed_at # None /\ now - task.completed_at < Hour
         IN  IF /\ ~ was_recently_manually_completed
                /\ ~ task.prevent_auto_completion
                /\ task.status = "completed"
             THEN [task EXCEPT !.is_completed = FALSE, !.status = "todo",
                               !.completed_at = None]
             ELSE task
    ELSE task

RECURSIVE SumDurations(_)
SumDurations(rows) ==
    IF rows = {} THEN 0
    ELSE LET s == CHOOSE x \in rows : TRUE
         IN  (s.end_time - s.start_time) + SumDurations(rows \ {s})

\* the minutes of the COMPLETED and PARTIAL sessions of a task
session_time_minutes(rows, task_id, user_id) ==
    SumDurations({s \in rows : /\ s.task_id = task_id
                               /\ s.user_id = user_id
                               /\ s.status \in {"COMPLETED", "PARTIAL"}})

\* _update_task_progress_from_session: the task afterwards
update_task_progress_from_session(rows, task, user_id, now) ==
    LET minutes == session_time_minutes(rows, task.id, user_id)
        t == [task EXCEPT !.actual_minutes_spent = IF minutes > 0 THEN minutes ELSE None]
    IN  update_task_completion_status(t, total_minutes_spent(t), t.estimated_minutes, now)

\* the rows of the task table (a sequence, the task with id i at position i)
\* after the propagation from a session to its task
PropagateToTask(rows, tasks, task_id, user_id, now) ==
    [i \in 1..Len(tasks) |->
        IF tasks[i].id = task_id
        THEN update_task_progress_from_session(rows, tasks[i], user_id, now)
        ELSE tasks[i]]

\* update_session: [code |-> 200 or the status of the HTTPException, rows |-> the
\* committed session rows afterwards, tasks |-> the committed task rows
\* afterwards].  An exception leaves the request without a commit.
update_session(rows, tasks, session_id, payload, user_id, now) ==
    LET found == {s \in rows : s.id = session_id /\ s.user_id = user_id}
        session == CHOOSE s \in found : TRUE
        times == payload.start_time # None \/ payload.end_time # None
        rejected(code) == [code |-> code, rows |-> rows, tasks |-> tasks]
        edited == [session EXCEPT
                      !.status = IF payload.status # NoStatus THEN payload.status ELSE @,
                      !.notes = IF payload.notes # None THEN payload.notes ELSE @,
                      !.is_pinned = IF payload.is_pinned # None
                                    THEN payload.is_pinned = 1 ELSE @]
        timed == IF is_session_shortening(edited, payload)
                 THEN update_session_times_shortening(edited, payload)
                 ELSE update_session_times(edited, payload, rows, user_id, session_id)
        final == IF times THEN timed.session ELSE edited
        committed == (rows \ {session}) \cup {final}
        should_update == \/ payload.status # NoStatus
                         \/ (times /\ final.status \in {"COMPLETED", "PARTIAL"})
    IN  IF found = {} THEN rejected(404)
        ELSE IF session.status = "COMPLETED" /\ times THEN rejected(400)
        ELSE IF /\ payload.start_time # None /\ payload.end_time # None
                /\ (\/ payload.end_time - payload.start_time < 5
                    \/ payload.end_time - payload.start_time > 480)
        THEN rejected(400)
        ELSE IF times /\ timed.code # 200 THEN rejected(timed.code)
        ELSE [code |-> 200, rows |-> committed,
              tasks |-> IF final.task_id # None /\ should_update
                        THEN PropagateToTask(committed, tasks, final.task_id, user_id, now)
                        ELSE tasks]

\* create_session without the validation of the duration
create_session_any_duration(rows, tasks, payload, user_id, next_id) ==
    IF /\ payload.task_id # None
       /\ ~ \E i \in 1..Len(tasks) : tasks[i].id = payload.task_id
    THEN [code |-> 404, rows |-> rows]
    ELSE [code |-> 200,
          rows |-> rows \cup
              {[id |-> next_id, user_id |-> user_id,
                start_time |-> payload.start_time, end_time |-> payload.end_time,
                status |-> "PLANNED", task_id |-> payload.task_id,
                subject_id |-> payload.subject_id, is_pinned |-> payload.is_pinned,
                generated_by |-> "manual", notes |-> None]}]

\* create_session: a StudySessionCreate payload is [task_id, subject_id,
\* start_time, end_time, is_pinned]
create_session(rows, tasks, payload, user_id, next_id) ==
    LET duration_minutes == payload.end_time - payload.start_time
    IN  IF duration_minutes < 5 \/ duration_minutes > 480
        THEN [code |-> 400, rows |-> rows]
        ELSE IF /\ payload.task_id # None
                /\ ~ \E i \in 1..Len(tasks) : tasks[i].id = payload.task_id
        THEN [code |-> 404, rows |-> rows]
        ELSE [code |-> 200,
              rows |-> rows \cup
                  {[id |-> next_id, user_id |-> user_id,
                    start_time |-> payload.start_time, end_time |-> payload.end_time,
                    status |-> "PLANNED", task_id |-> payload.task_id,
                    subject_id |-> payload.subject_id, is_pinned |-> payload.is_pinned,
                    generated_by |-> "manual", notes |-> None]}]

\* start_session without the demotion of the sessions already in progress
start_session_no_demotion(rows, session_id, user_id) ==
    LET found == {s \in rows : s.id = session_id /\ s.user_id = user_id}
        session == CHOOSE s \in found : TRUE
    IN  IF found = {} THEN [code |-> 404, rows |-> rows]
        ELSE IF session.status = "COMPLETED" THEN [code |-> 400, rows |-> rows]
        ELSE IF session.status = "IN_PROGRESS" THEN [code |-> 200, rows |-> rows]
        ELSE [code |-> 200,
              rows |-> {IF s = session THEN [s EXCEPT !.status = "IN_PROGRESS"] ELSE s :
                           s \in rows}]

\* start_session
start_session(rows, session_id, user_id) ==
    LET found == {s \in rows : s.id = session_id /\ s.user_id = user_id}
        session == CHOOSE s \in found : TRUE
        existing_in_progress == {s \in rows : /\ s.user_id = user_id
                                              /\ s.status = "IN_PROGRESS"
                                              /\ s.id # session_id}
    IN  IF found = {} THEN [code |-> 404, rows |-> rows]
        ELSE IF session.status = "COMPLETED" THEN [code |-> 400, rows |-> rows]
        ELSE IF session.status = "IN_PROGRESS" THEN [code |-> 200, rows |-> rows]
        ELSE [code |-> 200,
              rows |-> {IF s \in existing_in_progress THEN [s EXCEPT !.status = "PARTIAL"]
                        ELSE IF s = session THEN [s EXCEPT !.status = "IN_PROGRESS"]
                        ELSE s : s \in rows}]

\* delete_session: [code |-> 204 or the status of the HTTPException, rows]
delete_session(rows, session_id, user_id) ==
    LET found == {s \in rows : s.id = session_id /\ s.user_id = user_id}
        session == CHOOSE s \in found : TRUE
        is_manual_or_pinned == session.is_pinned \/ session.generated_by = "manual"
    IN  IF found = {} THEN [code |-> 404, rows |-> rows]
        ELSE IF session.status \notin {"PLANNED", "SKIPPED"} THEN [code |-> 400, rows |-> rows]
        ELSE IF ~ is_manual_or_pinned THEN [code |-> 400, rows |-> rows]
        ELSE [code |-> 204, rows |-> rows \ {session}]

\* list_sessions: the rows of the response (they are returned by start_time)
list_sessions(rows, user, now) ==
    LET today_start_utc == local_day_start(now, user.timezone)
    IN  {s \in rows : s.user_id = user.id /\ s.start_time >= today_start_utc}

\* _apply_field_updates for a TaskUpdate payload [status, is_completed]:
\* NoStatus for a status that is not set; is_completed is 1, 0 or None
apply_field_updates(task, payload) ==
    [task EXCEPT !.status = IF payload.status # NoStatus THEN payload.status ELSE @,
                 !.is_completed = IF payload.is_completed # None
                                  THEN payload.is_completed = 1 ELSE @]

\* _sync_is_completed_with_status
sync_is_completed_with_status(task, payload) ==
    IF payload.is_completed # None
    THEN IF payload.is_completed = 1 THEN [task EXCEPT !.status = "completed"]
         ELSE IF task.status = "completed" THEN [task EXCEPT !.status = "todo"]
         ELSE task
    ELSE task

\* _sync_status_with_is_completed, for a task that is no recurring instance
sync_status_with_is_completed(task, payload) ==
    IF payload.status = NoStatus THEN task
    ELSE IF payload.status = "completed" THEN [task EXCEPT !.is_completed = TRUE]
    ELSE IF task.is_completed THEN [task EXCEPT !.is_completed = FALSE]
    ELSE task

\* update_task, for a payload that sets status, is_completed or both
update_task(task, payload) ==
    sync_status_with_is_completed(
        sync_is_completed_with_status(apply_field_updates(task, payload), payload),
        payload)

\* create_task: Task(user_id, **payload.dict()); TaskCreate has no is_completed
create_task(payload, id) ==
    [id |-> id, subject_id |-> payload.subject_id,
     estimated_minutes |-> payload.estimated_minutes, deadline |-> payload.deadline,
     priority |-> payload.priority, is_completed |-> FALSE,
     is_recurring_template |-> FALSE, actual_minutes_spent |-> None,
     timer_minutes_spent |-> 0, status |-> payload.status, completed_at |-> None,
     prevent_auto_completion |-> FALSE]

\* _persist_sessions_to_db for a request that no other request runs next to:
\* [rows, tasks, next_id] afterwards
persist_sessions_to_db(cleaned, rescheduled, plan, next_id) ==
    LET preserved_sessions == {s \in cleaned : IsPreserved(s, SUser.id, window_start(plan),
                                                           window_end(plan))}
        del == {s.id : s \in {x \in cleaned : IsDeleted(x, SUser.id, window_start(plan),
                                                        window_end(plan))}}
        blocks == BlocksToInsert(plan, preserved_sessions)
    IN  [rows |-> ApplyWrites(cleaned, {}, del) \cup NewRows(blocks, SUser.id, next_id),
         tasks |-> rescheduled,
         next_id |-> next_id + Len(blocks)]

\* the plan of generate_week_plan for the tasks after the rescheduling
plan_for(rescheduled, reference) ==
    generate_weekly_schedule(SUser, PSubjects, rescheduled, <<>>, <<>>, reference)

\* generate_week_plan, for a request that no other request runs next to:
\* [rows, tasks, next_id] afterwards
generate_week_plan(rows, tasks, now_utc, next_id) ==
    persist_sessions_to_db(
        ApplyWrites(rows, cleanup_stale_sessions(rows, SUser.id, now_utc), {}),
        auto_reschedule_overdue_tasks(tasks, round_to_nearest_minutes(now_utc, 5)),
        plan_for(auto_reschedule_overdue_tasks(tasks, round_to_nearest_minutes(now_utc, 5)),
                 round_to_nearest_minutes(now_utc, 5)),
        next_id)

-----------------------------------------------------------------------------
(* Requests to the session and task routes of one user, one after another  *)

MaxOps == 3
MaxTicks == 1

\* Tuesday 09:30 UTC of week 1
RClock == STuesday + 9 * Hour + 30

\* the sessions of the user before the requests: one completed, one left in
\* progress since the early morning, two planned back to back
RRows ==
    { Row(1, 1, STuesday + 7 * Hour, STuesday + 8 * Hour + 30, "COMPLETED", FALSE, "weekly"),
      Row(2, 1, STuesday + 5 * Hour, STuesday + 6 * Hour + 30, "IN_PROGRESS", FALSE, "weekly"),
      Row(3, 1, STuesday + 10 * Hour, STuesday + 11 * Hour, "PLANNED", FALSE, "weekly"),
      Row(4, 1, STuesday + 11 * Hour, STuesday + 12 * Hour, "PLANNED", TRUE, "manual"),
      Row(5, 2, STuesday + 10 * Hour, STuesday + 12 * Hour, "PLANNED", FALSE, "weekly") }

RFirstId == Cardinality(RRows) + 1

TaskRow(task, status, completed_at, prevent_auto_completion) ==
    [id |-> task.id, subject_id |-> task.subject_id,
     estimated_minutes |-> task.estimated_minutes, deadline |-> task.deadline,
     priority |-> task.priority, is_completed |-> status = "completed",
     is_recurring_template |-> FALSE,
     actual_minutes_spent |-> task.actual_minutes_spent,
     timer_minutes_spent |-> 0, status |-> status, completed_at |-> completed_at,
     prevent_auto_completion |-> prevent_auto_completion]

\* the task of the sessions above (90 minutes completed of 180 estimated): open,
\* or completed the day before, with or without prevent_auto_completion
RTask1 ==
    [OpenTask(1, "HIGH", 1, STuesday + 2 * Day + 18 * Hour, 180)
        EXCEPT !.actual_minutes_spent = 90]
RTaskChoices ==
    { << TaskRow(RTask1, st[1], st[2], prevent) >> :
        st \in {<<"todo", None>>, <<"completed", RClock - Day>>},
        prevent \in BOOLEAN }

SessionPayload(status, notes, start_time, end_time, is_pinned) ==
    [status |-> status, notes |-> notes, start_time |-> start_time,
     end_time |-> end_time, is_pinned |-> is_pinned]

\* the StudySessionUpdate payloads: a status, one time, both times, everything
RPatchPayloads ==
    { SessionPayload(st, None, None, None, None) :
        st \in {"COMPLETED", "PARTIAL", "PLANNED", "IN_PROGRESS"} }
    \cup
    { SessionPayload(NoStatus, None, t[1], t[2], None) :
        t \in { <<STuesday + 10 * Hour + 30, None>>,
                <<STuesday + 9 * Hour + 45, None>>,
                <<None, STuesday + 10 * Hour + 40>>,
                <<None, STuesday + 11 * Hour + 30>>,
                <<STuesday + 10 * Hour + 30, STuesday + 10 * Hour + 40>>,
                <<STuesday + 10 * Hour + 30, STuesday + 10 * Hour + 32>> } }
    \cup
    { SessionPayload("COMPLETED", 1, STuesday + 10 * Hour + 30, STuesday + 19 * Hour, 0),
      SessionPayload("PARTIAL", 1, STuesday + 10 * Hour + 30, STuesday + 11 * Hour + 30, 1),
      SessionPayload("COMPLETED", 1, STuesday + 12 * Hour, STuesday + 13 * Hour, 0) }

\* the StudySessionCreate payloads
RCreatePayloads ==
    { [task_id |-> 1, subject_id |-> 1, start_time |-> STuesday + 13 * Hour,
       end_time |-> STuesday + 14 * Hour, is_pinned |-> TRUE],
      [task_id |-> 1, subject_id |-> 1, start_time |-> STuesday + 10 * Hour + 30,
       end_time |-> STuesday + 11 * Hour + 30, is_pinned |-> FALSE],
      [task_id |-> 1, subject_id |-> 1, start_time |-> STuesday + 13 * Hour,
       end_time |-> STuesday + 13 * Hour + 3, is_pinned |-> TRUE] }

\* the TaskUpdate payloads
RTaskPayloads ==
    { [status |-> "completed", is_completed |-> None],
      [status |-> "todo", is_completed |-> None],
      [status |-> NoStatus, is_completed |-> 1],
      [status |-> NoStatus, is_completed |-> 0],
      [status |-> "todo", is_completed |-> 1],
      [status |-> "completed", is_completed |-> 0] }

\* the TaskCreate payloads
RNewTaskPayloads ==
    { [subject_id |-> 1, estimated_minutes |-> 60, deadline |-> STuesday + 3 * Day,
       priority |-> "LOW", status |-> st] : st \in {"todo", "completed"} }

NoRequest ==
    [op |-> "none", code |-> 0, session_id |-> None, task_id |-> None,
     payload |-> <<>>, before_sessions |-> {}, before_tasks |-> <<>>]

Request(op, code, session_id, task_id, payload) ==
    [op |-> op, code |-> code, session_id |-> session_id, task_id |-> task_id,
     payload |-> payload, before_sessions |-> dbSessions, before_tasks |-> dbTasks]

RStart ==
    /\ clock = RClock
    /\ dbSessions = RRows
    /\ dbTasks \in RTaskChoices
    /\ dbNextId = RFirstId
    /\ gen = <<>>
    /\ last = NoRequest
    /\ ops = 0
    /\ marked = [i \in 1..Len(dbTasks) |-> dbTasks[i].completed_at]

\* marked after a request that leaves the task rows as tasks
MarkedAfter(tasks) ==
    [i \in 1..Len(tasks) |->
        IF ~ tasks[i].is_completed THEN None
        ELSE IF i > Len(dbTasks) \/ ~ dbTasks[i].is_completed THEN clock
        ELSE marked[i]]

\* PATCH /schedule/sessions/{session_id}
PatchSession(session_id, payload) ==
    /\ ops < MaxOps
    /\ LET r == update_session(dbSessions, dbTasks, session_id, payload, SUser.id, clock)
       IN  /\ dbSessions' = r.rows
           /\ dbTasks' = r.tasks
           /\ marked' = MarkedAfter(r.tasks)
           /\ last' = Request("update_session", r.code, session_id, None, payload)
    /\ ops' = ops + 1
    /\ UNCHANGED <<dbNextId, clock, gen>>
    /\ UNCHANGED <<weightVars, interleaveVars, planVars, recurVars, twinVars, callVars, energyVars>>

\* POST /schedule/sessions
CreateSession(payload) ==
    /\ ops < MaxOps
    /\ LET r == create_session(dbSessions, dbTasks, payload, SUser.id, dbNextId)
       IN  /\ dbSessions' = r.rows
           /\ dbNextId' = IF r.code = 200 THEN dbNextId + 1 ELSE dbNextId
           /\ last' = Request("create_session", r.code,
                              IF r.code = 200 THEN dbNextId ELSE None, None, payload)
    /\ ops' = ops + 1
    /\ UNCHANGED <<dbTasks, clock, gen, marked>>
    /\ UNCHANGED <<weightVars, interleaveVars, planVars, recurVars, twinVars, callVars, energyVars>>

\* POST /schedule/sessions/{session_id}/start
StartSession(session_id) ==
    /\ ops < MaxOps
    /\ LET r == start_session(dbSessions, session_id, SUser.id)
       IN  /\ dbSessions' = r.rows
           /\ last' = Request("start_session", r.code, session_id, None, <<>>)
    /\ ops' = ops + 1
    /\ UNCHANGED <<dbTasks, dbNextId, clock, gen, marked>>
    /\ UNCHANGED <<weightVars, interleaveVars, planVars, recurVars, twinVars, callVars, energyVars>>

\* POST /schedule/generate
Generate ==
    /\ ops < MaxOps
    /\ LET r == generate_week_plan(dbSessions, dbTasks, clock, dbNextId)
       IN  /\ dbSessions' = r.rows
           /\ dbTasks' = r.tasks
           /\ dbNextId' = r.next_id
           /\ marked' = MarkedAfter(r.tasks)
           /\ last' = Request("generate_week_plan", 200, None, None, <<>>)
    /\ ops' = ops + 1
    /\ UNCHANGED <<clock, gen>>
    /\ UNCHANGED <<weightVars, interleaveVars, planVars, recurVars, twinVars, callVars, energyVars>>

\* PATCH /tasks/{task_id}
UpdateTask(i, payload) ==
    /\ ops < MaxOps
    /\ LET tasks == [dbTasks EXCEPT ![i] = update_task(@, payload)]
       IN  /\ dbTasks' = tasks
           /\ marked' = MarkedAfter(tasks)
           /\ last' = Request("update_task", 200, None, dbTasks[i].id, payload)
    /\ ops' = ops + 1
    /\ UNCHANGED <<dbSessions, dbNextId, clock, gen>>
    /\ UNCHANGED <<weightVars, interleaveVars, planVars, recurVars, twinVars, callVars, energyVars>>

\* POST /tasks/
CreateTask(payload) ==
    /\ ops < MaxOps
    /\ LET tasks == Append(dbTasks, create_task(payload, Len(dbTasks) + 1))
       IN  /\ dbTasks' = tasks
           /\ marked' = MarkedAfter(tasks)
           /\ last' = Request("create_task", 201, None, Len(tasks), payload)
    /\ ops' = ops + 1
    /\ UNCHANGED <<dbSessions, dbNextId, clock, gen>>
    /\ UNCHANGED <<weightVars, interleaveVars, planVars, recurVars, twinVars, callVars, energyVars>>

\* an hour passes
Tick ==
    /\ clock < RClock + MaxTicks * Hour
    /\ clock' = clock + Hour
    /\ UNCHANGED <<dbSessions, dbTasks, dbNextId, gen, routeVars, recurVars>>
    /\ UNCHANGED <<weightVars, interleaveVars, planVars, recurVars, twinVars, callVars, energyVars>>

RInit == RStart /\ WIdle /\ IIdle /\ PIdle /\ TIdle /\ XIdle /\ CIdle /\ EIdle

RNext ==
    \/ \E s \in dbSessions, payload \in RPatchPayloads : PatchSession(s.id, payload)
    \/ \E payload \in RCreatePayloads : CreateSession(payload)
    \/ \E s \in dbSessions : StartSession(s.id)
    \/ Generate
    \/ \E i \in 1..Len(dbTasks), payload \in RTaskPayloads : UpdateTask(i, payload)
    \/ \E payload \in RNewTaskPayloads : CreateTask(payload)
    \/ Tick

SpecSessions == RInit /\ [][RNext]_vars

\* C11: every stored study session has start_time before end_time and a
\* duration of 5 to 480 minutes, after any sequence of generate, manual create and
\* PATCH requests that change both times, only the start or only the end
C11_StoredDurationsInRange ==
    \A s \in dbSessions :
        /\ s.start_time < s.end_time
        /\ s.end_time - s.start_time >= 5
        /\ s.end_time - s.start_time <= 480

\* a PATCH with one time only was accepted after a generate call had inserted
\* blocks and a manual session had been created
C11_Witness ==
    /\ last.op = "update_session"
    /\ last.code = 200
    /\ (last.payload.start_time = None) # (last.payload.end_time = None)
    /\ \E s \in dbSessions : s.id >= RFirstId /\ s.generated_by = "weekly"
    /\ \E s \in dbSessions : s.id >= RFirstId /\ s.generated_by = "manual"
    /\ \E s \in dbSessions, t \in last.before_sessions :
           s.id = last.session_id /\ t.id = s.id /\ t.start_time # s.start_time

\* the sessions that the last request changed to COMPLETED or PARTIAL
ChangedToDone ==
    {s \in dbSessions :
        /\ s.user_id = SUser.id
        /\ s.status \in {"COMPLETED", "PARTIAL"}
        /\ \E t \in last.before_sessions : t.id = s.id /\ t.status # s.status}

\* C15: after a request that changed a session of a task to COMPLETED or PARTIAL
\* (PATCH of the status, the demotion by start, the stale-session cleanup), the
\* task's actual_minutes_spent is the sum of the durations of the COMPLETED and
\* PARTIAL sessions of the task
C15_ActualMinutesFollowSessions ==
    \A s \in ChangedToDone :
        \A i \in 1..Len(dbTasks) :
            dbTasks[i].id = s.task_id =>
                dbTasks[i].actual_minutes_spent
                    = session_time_minutes(dbSessions, s.task_id, SUser.id)

\* the same after a PATCH request only
C15_AfterPatch ==
    last.op = "update_session" => C15_ActualMinutesFollowSessions

\* a PATCH changed a session to COMPLETED and the task has the new sum
C15_PatchWitness ==
    /\ last.op = "update_session"
    /\ ChangedToDone # {}
    /\ C15_ActualMinutesFollowSessions

SessionOps == {"update_session", "create_session", "start_session", "generate_week_plan"}

\* C16: a request that creates a session, changes the status or the times of a
\* session, starts a session or regenerates the schedule leaves is_completed of
\* every task with prevent_auto_completion as it was
C16_PreventAutoCompletionHolds ==
    [][last'.op \in SessionOps =>
          \A i \in 1..Len(dbTasks) :
              dbTasks[i].prevent_auto_completion =>
                  dbTasks'[i].is_completed = dbTasks[i].is_completed]_vars

\* the propagation ran for a task with prevent_auto_completion: its sessions now
\* reach the estimate and it is still open, or they no longer reach it and it is
\* still completed
C16_Witness ==
    /\ last.op = "update_session"
    /\ last.code = 200
    /\ \E i \in 1..Len(dbTasks) :
           /\ dbTasks[i].prevent_auto_completion
           /\ dbTasks[i].actual_minutes_spent # last.before_tasks[i].actual_minutes_spent
           /\ \/ /\ total_minutes_spent(dbTasks[i]) >= dbTasks[i].estimated_minutes
                 /\ ~ dbTasks[i].is_completed
              \/ /\ total_minutes_spent(dbTasks[i]) < dbTasks[i].estimated_minutes
                 /\ dbTasks[i].is_completed
                 /\ clock - dbTasks[i].completed_at >= Hour

\* task i is completed and was marked complete less than an hour ago
RecentlyMarked(i) ==
    /\ dbTasks[i].is_completed
    /\ marked[i] # None
    /\ clock - marked[i] < Hour

\* C17: the propagation from a session to its task never sets a task back to
\* not-completed that was marked complete less than one hour ago, by a task
\* update or by auto-completion
C17_RecentCompletionKept ==
    [][last'.op \in SessionOps =>
          \A i \in 1..Len(dbTasks) :
              RecentlyMarked(i) => dbTasks'[i].is_completed]_vars

\* the same for the tasks that auto-completion marked, which records completed_at
C17_RecentAutoCompletionKept ==
    [][last'.op \in SessionOps =>
          \A i \in 1..Len(dbTasks) :
              (RecentlyMarked(i) /\ dbTasks[i].completed_at = marked[i])
                  => dbTasks'[i].is_completed]_vars

\* C18: is_completed is true exactly when status is "completed", after any
\* sequence of task creations, task updates that set status, is_completed or both,
\* and completions and un-completions driven by sessions
C18_CompletedIffStatus ==
    \A i \in 1..Len(dbTasks) :
        dbTasks[i].is_completed <=> dbTasks[i].status = "completed"

\* the same as long as no task was created as completed and no update set both
\* fields to values that disagree
C18_AfterAgreeingRequests ==
    [][(/\ C18_CompletedIffStatus
        /\ ~ (last'.op = "create_task" /\ last'.payload.status = "completed")
        /\ ~ (/\ last'.op = "update_task"
              /\ last'.payload.status # NoStatus
              /\ last'.payload.is_completed # None
              /\ (last'.payload.status = "completed") # (last'.payload.is_completed = 1)))
          => C18_CompletedIffStatus']_vars

\* the session that the last PATCH request named, before and after the request
PatchedBefore == CHOOSE t \in last.before_sessions : t.id = last.session_id
PatchedAfter == CHOOSE s \in dbSessions : s.id = last.session_id

PatchAccepted == last.op = "update_session" /\ last.code = 200

\* C19: an accepted PATCH with only an earlier end_time or only a later start_time
\* leaves the session inside its previous interval, the other endpoint unchanged
C19_ShorteningStaysInside ==
    (PatchAccepted /\ is_session_shortening(PatchedBefore, last.payload)) =>
        /\ PatchedBefore.start_time <= PatchedAfter.start_time
        /\ PatchedAfter.end_time <= PatchedBefore.end_time
        /\ last.payload.start_time = None
               => PatchedAfter.start_time = PatchedBefore.start_time
        /\ last.payload.end_time = None
               => PatchedAfter.end_time = PatchedBefore.end_time

\* the last request was a PATCH with both times of a session of the user
PatchedBothTimes ==
    /\ last.op = "update_session"
    /\ last.code # 404
    /\ last.payload.start_time # None
    /\ last.payload.end_time # None

PatchedDuration == last.payload.end_time - last.payload.start_time

\* the other sessions of the user, not COMPLETED, that the new interval overlaps
PatchedOverlaps ==
    {t \in last.before_sessions :
        /\ t.user_id = SUser.id
        /\ t.id # last.session_id
        /\ t.status # "COMPLETED"
        /\ sessions_overlap(last.payload.start_time, last.payload.end_time,
                            t.start_time, t.end_time)}

PatchedInvalid ==
    \/ PatchedBefore.status = "COMPLETED"
    \/ PatchedDuration < 5
    \/ PatchedDuration > 480

\* C20: a PATCH with both times answers 400 when the session is COMPLETED or the
\* new duration is outside 5..480 minutes, and 409 when the new interval overlaps
\* another session of the user that is not COMPLETED; a rejected PATCH leaves the
\* stored times, status, notes and pinned flag as they were
C20_RejectedPatchChangesNothing ==
    /\ PatchedBothTimes =>
           /\ PatchedInvalid => last.code = 400
           /\ (~ PatchedInvalid /\ PatchedOverlaps # {}) => last.code = 409
    /\ (last.op = "update_session" /\ last.code # 200) =>
           /\ dbSessions = last.before_sessions
           /\ dbTasks = last.before_tasks

\* a PATCH that carried a status, notes, a pinned flag and both times was
\* answered 409
C20_Witness ==
    /\ PatchedBothTimes
    /\ last.code = 409
    /\ last.payload.status # NoStatus
    /\ last.payload.notes # None
    /\ last.payload.is_pinned # None
    /\ PatchedBefore.status # last.payload.status

\* the same with answer 400, for a COMPLETED session and for a bad duration
C20_Witness400 ==
    /\ PatchedBothTimes
    /\ last.code = 400
    /\ last.payload.status # NoStatus
    /\ PatchedBefore.status # "COMPLETED"
    /\ PatchedDuration > 480

-----------------------------------------------------------------------------
(* Recurring tasks (services/recurring_tasks.py)                            *)
(*                                                                         *)
(* Minute 0 is Monday 1 January 2024, 00:00 UTC; the calendar below is that *)
(* of 2024.  A recurrence pattern is a record [frequency, interval,         *)
(* weekdays_only, days_of_week, day_of_month, week_of_month]: days_of_week  *)
(* is the list as given (<<>> when absent), day_of_month and week_of_month  *)
(* are None when absent.                                                    *)

MonthLengths == <<31, 29, 31, 30, 31, 30, 31, 31, 30, 31, 30, 31>>

RECURSIVE FirstOfMonth(_)
\* the day number of the first day of month m
FirstOfMonth(m) == IF m = 1 THEN 0 ELSE FirstOfMonth(m - 1) + MonthLengths[m - 1]

\* date.month
MonthOf(date) == CHOOSE m \in 1..12 :
                     FirstOfMonth(m) <= date /\ date < FirstOfMonth(m) + MonthLengths[m]

\* a ValueError that no handler catches
Raised == -2

SeqMin(seq) == CHOOSE x \in {seq[i] : i \in 1..Len(seq)} :
                   \A j \in 1..Len(seq) : x <= seq[j]

\* _calculate_daily_next
RECURSIVE SkipWeekend(_)
SkipWeekend(date) == IF Weekday(date) >= 5 THEN SkipWeekend(date + 1) ELSE date

calculate_daily_next(base_date, pattern) ==
    IF pattern.weekdays_only
    THEN SkipWeekend(base_date + pattern.interval)
    ELSE base_date + pattern.interval

\* the first listed weekday after the weekday of base_date, None without one
LaterDayThisWeek(base_date, days_of_week) ==
    LET later == {days_of_week[i] : i \in 1..Len(days_of_week)}
                     \cap ((Weekday(base_date) + 1)..6)
    IN  IF later = {} THEN None
        ELSE base_date + ((CHOOSE x \in later : \A y \in later : x <= y)
                             - Weekday(base_date))

\* "pattern.get('days_of_week', [base_date.weekday()])", and the same when empty
DaysOfWeekOr(base_date, pattern) ==
    IF pattern.days_of_week = <<>> THEN <<Weekday(base_date)>> ELSE pattern.days_of_week

\* _calculate_weekly_next
calculate_weekly_next(base_date, start_date, pattern) ==
    LET days_of_week == DaysOfWeekOr(base_date, pattern)
        next_occurrence == LaterDayThisWeek(base_date, days_of_week)
        weeks_since_start == (base_date - start_date) \div 7
    IN  IF next_occurrence = None
        THEN base_date + (7 - Weekday(base_date) + SeqMin(days_of_week)
                            + (pattern.interval - 1) * 7)
        ELSE IF pattern.interval > 1 /\ weeks_since_start % pattern.interval # 0
        THEN next_occurrence
                 + 7 * (pattern.interval - (weeks_since_start % pattern.interval))
        ELSE next_occurrence

\* _calculate_biweekly_next
calculate_biweekly_next(base_date, pattern) ==
    LET days_of_week == DaysOfWeekOr(base_date, pattern)
        next_occurrence == LaterDayThisWeek(base_date, days_of_week)
    IN  IF next_occurrence = None
        THEN base_date + (14 - Weekday(base_date) + SeqMin(days_of_week))
        ELSE next_occurrence

\* _calculate_monthly_next; Raised when date.replace raises outside the try
calculate_monthly_next(base_date, pattern) ==
    LET month == MonthOf(base_date)
        next_month == FirstOfMonth(month + 1)
    IN  IF pattern.day_of_month # None /\ pattern.day_of_month # 0
        THEN IF pattern.day_of_month <= MonthLengths[month + 1]
             THEN next_month + pattern.day_of_month - 1
             ELSE IF pattern.day_of_month <= MonthLengths[month]
             THEN FirstOfMonth(month) + pattern.day_of_month - 1
             ELSE Raised
        ELSE IF pattern.week_of_month # None /\ pattern.week_of_month # 0
        THEN LET target_weekday == IF pattern.days_of_week = <<>> THEN 0
                                   ELSE pattern.days_of_week[1]
             IN  next_month + ((target_weekday - Weekday(next_month)) % 7)
                            + (pattern.week_of_month - 1) * 7
        ELSE base_date

\* _convert_to_datetime
convert_to_datetime(next_date, start_date) == next_date * Day + (start_date % Day)

\* _check_end_date
check_end_date(next_datetime, end_date) ==
    end_date # None /\ next_datetime > end_date

\* calculate_next_occurrence with a last_occurrence_date
calculate_next_occurrence(pattern, last_occurrence_date, start_date, end_date) ==
    LET base_date == DateOf(last_occurrence_date)
        next_date ==
            CASE pattern.frequency = "daily" -> calculate_daily_next(base_date, pattern)
              [] pattern.frequency = "weekly" ->
                     calculate_weekly_next(base_date, DateOf(start_date), pattern)
              [] pattern.frequency = "biweekly" -> calculate_biweekly_next(base_date, pattern)
              [] pattern.frequency = "monthly" -> calculate_monthly_next(base_date, pattern)
    IN  IF end_date # None /\ base_date >= DateOf(end_date) THEN None
        ELSE IF next_date = Raised THEN Raised
        ELSE IF check_end_date(convert_to_datetime(next_date, start_date), end_date)
        THEN None
        ELSE convert_to_datetime(next_date, start_date)

\* _get_last_occurrence_date, for instances that all have a deadline
get_last_occurrence_date(existing_instances) ==
    IF existing_instances = {} THEN None
    ELSE CHOOSE d \in {t.deadline : t \in existing_instances} :
             \A t \in existing_instances : t.deadline <= d

\* _calculate_start_date
calculate_start_date(template, last_occurrence_date) ==
    IF last_occurrence_date # None THEN last_occurrence_date
    ELSE IF template.deadline # None THEN template.deadline
    ELSE template.created_at

\* _instance_exists_for_date
instance_exists_for_date(existing_instances, deadline) ==
    \E inst \in existing_instances :
        inst.deadline # None /\ DateOf(inst.deadline) = DateOf(deadline)

\* _generate_instances_loop: [new |-> the deadlines of the new instances in order,
\* outcome |-> "returns", "raises" (ValueError) or "hangs" (the next deadline is
\* not after the current one, and the loop repeats the same step for ever)]
RECURSIVE generate_instances_loop(_, _, _, _, _, _, _)
generate_instances_loop(pattern, start_date, target_date, end_date, existing_instances, current_deadline, new_instances) ==
    IF current_deadline = None \/ current_deadline > target_date
    THEN [new |-> new_instances, outcome |-> "returns"]
    ELSE IF end_date # None /\ current_deadline > end_date
    THEN [new |-> new_instances, outcome |-> "returns"]
    ELSE LET next_deadline == calculate_next_occurrence(pattern, current_deadline,
                                                        start_date, end_date)
             created == IF instance_exists_for_date(existing_instances, current_deadline)
                        THEN new_instances
                        ELSE Append(new_instances, current_deadline)
         IN  IF next_deadline = Raised THEN [new |-> <<>>, outcome |-> "raises"]
             ELSE IF next_deadline # None /\ next_deadline <= current_deadline
             THEN [new |-> <<>>, outcome |-> "hangs"]
             ELSE generate_instances_loop(pattern, start_date, target_date, end_date,
                                          existing_instances, next_deadline, created)

\* generate_recurring_instances with force_regenerate = False
generate_recurring_instances(template, instances, now, weeks_ahead) ==
    LET end_date == template.recurrence_end_date
        ahead == now + weeks_ahead * 7 * Day
        target_date == IF end_date # None /\ ahead > end_date THEN end_date ELSE ahead
        existing_instances == {t \in instances : t.recurring_template_id = template.id}
        start_date == calculate_start_date(template,
                                           get_last_occurrence_date(existing_instances))
    IN  IF start_date = None THEN [new |-> <<>>, outcome |-> "returns"]
        ELSE generate_instances_loop(template.recurrence_pattern, start_date, target_date,
                                     end_date, existing_instances, start_date, <<>>)

\* _check_instance_exists
check_instance_exists(instances, template, next_date) ==
    LET existing == {t \in instances : t.recurring_template_id = template.id}
    IN  existing # {}

\* generate_next_instance_on_completion: the deadline of the instance it creates,
\* None when it creates none
generate_next_instance_on_completion(instances, template, completed_instance) ==
    LET next_date == calculate_next_occurrence(template.recurrence_pattern,
                         completed_instance.deadline, completed_instance.deadline,
                         template.recurrence_end_date)
    IN  IF completed_instance.deadline = None THEN None
        ELSE IF next_date = None \/ next_date = Raised THEN None
        ELSE IF check_instance_exists(instances, template, next_date) THEN None
        ELSE next_date

-----------------------------------------------------------------------------
(* Calls on one recurring template, one after another, at one time         *)

MaxCalls == 3

Pattern(frequency, interval, weekdays_only, days_of_week, day_of_month, week_of_month) ==
    [frequency |-> frequency, interval |-> interval, weekdays_only |-> weekdays_only,
     days_of_week |-> days_of_week, day_of_month |-> day_of_month,
     week_of_month |-> week_of_month]

TPatterns ==
    { Pattern("daily", 2, FALSE, <<>>, None, None),
      Pattern("daily", 3, TRUE, <<>>, None, None),
      Pattern("weekly", 1, FALSE, <<>>, None, None),
      Pattern("weekly", 1, FALSE, <<2>>, None, None),
      Pattern("weekly", 1, FALSE, <<0, 2>>, None, None),
      Pattern("weekly", 2, FALSE, <<2>>, None, None),
      Pattern("weekly", 2, FALSE, <<0, 2>>, None, None),
      Pattern("weekly", 3, FALSE, <<4, 1>>, None, None),
      Pattern("biweekly", 1, FALSE, <<>>, None, None),
      Pattern("biweekly", 1, FALSE, <<0, 2>>, None, None),
      Pattern("monthly", 1, FALSE, <<>>, 15, None),
      Pattern("monthly", 1, FALSE, <<2>>, None, 2),
      Pattern("monthly", 1, FALSE, <<>>, 31, None),
      Pattern("monthly", 1, FALSE, <<>>, None, None) }

\* the template deadlines: Wednesday 3, Thursday 4, Monday 8 and Tuesday 30
\* January, at 18:00
TDeadlines == {2 * Day + 18 * Hour, 3 * Day + 18 * Hour, 7 * Day + 18 * Hour,
               29 * Day + 18 * Hour}

\* the times of the calls: Wednesday 3 January 20:00, Monday 15 January 09:00
TNows == {2 * Day + 20 * Hour, 14 * Day + 9 * Hour}

\* recurrence_end_date: none, or Friday 26 January 18:00
TEndDates == {None, 25 * Day + 18 * Hour}

TWeeksAhead == {2, 4}

NoCall == [op |-> "none", instance |-> None, outcome |-> "returns", before |-> {}]

TStart ==
    /\ \E pattern \in TPatterns, deadline \in TDeadlines, end_date \in TEndDates :
           rTemplate = [id |-> 1, recurrence_pattern |-> pattern, deadline |-> deadline,
                        created_at |-> Day, recurrence_end_date |-> end_date]
    /\ rInstances = {}
    /\ rNow \in TNows
    /\ rWeeks \in TWeeksAhead
    /\ rLast = NoCall
    /\ rCalls = 0

\* _create_task_instance for each deadline of the list, with the next ids
NewInstances(deadlines, first_id) ==
    {[id |-> first_id + i - 1, deadline |-> deadlines[i], is_completed |-> FALSE,
      recurring_template_id |-> rTemplate.id] : i \in 1..Len(deadlines)}

NextInstanceId == Cardinality(rInstances) + 2

\* generate_recurring_instances(db, template, weeks_ahead, force_regenerate=False);
\* a call that raises or does not end commits nothing
GenerateInstances ==
    /\ rCalls < MaxCalls
    /\ LET r == generate_recurring_instances(rTemplate, rInstances, rNow, rWeeks)
       IN  /\ rInstances' = rInstances \cup NewInstances(r.new, NextInstanceId)
           /\ rLast' = [op |-> "generate", instance |-> None, outcome |-> r.outcome,
                        before |-> rInstances]
    /\ rCalls' = rCalls + 1
    /\ UNCHANGED <<rTemplate, rNow, rWeeks>>
    /\ UNCHANGED <<weightVars, interleaveVars, planVars, storeVars, routeVars, twinVars, callVars, energyVars>>

\* PATCH /tasks/{id} {status: completed} on an instance:
\* _sync_status_with_is_completed and generate_next_instance_on_completion
CompleteInstance(id) ==
    /\ rCalls < MaxCalls
    /\ \E t \in rInstances :
          /\ t.id = id
          /\ LET next_date == generate_next_instance_on_completion(rInstances, rTemplate, t)
                 completed == (rInstances \ {t}) \cup {[t EXCEPT !.is_completed = TRUE]}
             IN  rInstances' = IF next_date = None THEN completed
                               ELSE completed \cup NewInstances(<<next_date>>, NextInstanceId)
    /\ rLast' = [op |-> "complete", instance |-> id, outcome |-> "returns",
                 before |-> rInstances]
    /\ rCalls' = rCalls + 1
    /\ UNCHANGED <<rTemplate, rNow, rWeeks>>
    /\ UNCHANGED <<weightVars, interleaveVars, planVars, storeVars, routeVars, twinVars, callVars, energyVars>>

TInit == TStart /\ WIdle /\ IIdle /\ PIdle /\ SIdle /\ RIdle /\ XIdle /\ CIdle /\ EIdle

TNext ==
    \/ GenerateInstances
    \/ \E t \in rInstances : CompleteInstance(t.id)

SpecRecur == TInit /\ [][TNext]_vars

\* the instances that the step creates
CreatedByStep == {t \in rInstances' : \A u \in rInstances : u.id # t.id}

\* C13: completing an instance that was not completed creates exactly one new
\* instance, whose deadline is the next occurrence after the deadline of the
\* completed instance (when the pattern has one before the end date and no
\* instance has that date yet); completing it again creates none
C13_CompletionCreatesNext ==
    [][\A t \in rInstances :
          (rCalls' # rCalls /\ rLast'.op = "complete" /\ rLast'.instance = t.id) =>
              LET next_date == calculate_next_occurrence(rTemplate.recurrence_pattern,
                                   t.deadline, t.deadline, rTemplate.recurrence_end_date)
              IN  IF t.is_completed THEN CreatedByStep = {}
                  ELSE (/\ next_date # None
                        /\ next_date # Raised
                        /\ ~ instance_exists_for_date(rInstances, next_date))
                           => /\ Cardinality(CreatedByStep) = 1
                              /\ \A n \in CreatedByStep : n.deadline = next_date]_vars

\* C14: a call of generate_recurring_instances that follows a call that returned,
\* with the same weeks_ahead and at the same time, creates no instance
C14_SecondCallCreatesNothing ==
    [][(/\ rCalls' # rCalls
        /\ rLast.op = "generate"
        /\ rLast.outcome = "returns"
        /\ rLast'.op = "generate") => rInstances' = rInstances]_vars

\* the same for the patterns other than weekly with an interval above 1
C14_UnphasedSecondCallCreatesNothing ==
    [][(/\ rCalls' # rCalls
        /\ rLast.op = "generate"
        /\ rLast.outcome = "returns"
        /\ rLast'.op = "generate"
        /\ ~ (/\ rTemplate.recurrence_pattern.frequency = "weekly"
              /\ rTemplate.recurrence_pattern.interval > 1))
          => rInstances' = rInstances]_vars

-----------------------------------------------------------------------------
(* Further properties of the session routes (SpecSessions)                  *)

\* the last request was a start of a session of the user
StartedOwn == last.op = "start_session" /\ last.code # 404

\* the sessions of the user, other than the started one, in progress before
OthersInProgressBefore ==
    {t \in last.before_sessions : /\ t.user_id = SUser.id
                                  /\ t.id # last.session_id
                                  /\ t.status = "IN_PROGRESS"}

C21_WitnessRejected ==
    /\ StartedOwn
    /\ last.code = 400
    /\ PatchedBefore.status = "COMPLETED"

C21_WitnessAlreadyStarted ==
    /\ StartedOwn
    /\ PatchedBefore.status = "IN_PROGRESS"
    /\ last.before_sessions # RRows

\* the row stored by the last POST /schedule/sessions
CreatedRow == CHOOSE s \in dbSessions : s.id = last.session_id

\* the sessions that POST /schedule/sessions stored and a state still holds
ManualRows == {s \in dbSessions : s.generated_by = "manual" /\ s.id >= RFirstId}

\* C22 (first half): a session created through POST /schedule/sessions is stored
\* with status PLANNED, generated_by manual and is_pinned true
C22_CreatedPinned ==
    (last.op = "create_session" /\ last.code = 200) =>
        /\ CreatedRow.status = "PLANNED"
        /\ CreatedRow.generated_by = "manual"
        /\ CreatedRow.is_pinned

\* C22: a session created through POST /schedule/sessions is stored PLANNED,
\* manual and pinned, and no later regeneration deletes it
C22_ManualNeverRegenerated ==
    [][/\ (last'.op = "create_session" /\ last'.code = 200) =>
              \E s \in dbSessions' :
                  /\ s.id = last'.session_id
                  /\ s.status = "PLANNED" /\ s.generated_by = "manual" /\ s.is_pinned
       /\ last'.op = "generate_week_plan" =>
              \A s \in ManualRows : \E t \in dbSessions' : t.id = s.id]_vars

\* C22 (second half alone): no regeneration deletes a session that
\* POST /schedule/sessions stored
C22_RegenerationKeepsManual ==
    [][last'.op = "generate_week_plan" =>
           \A s \in ManualRows : \E t \in dbSessions' : t.id = s.id]_vars

\* what the code keeps: a regeneration deletes no pinned session
C22_RegenerationKeepsPinned ==
    [][last'.op = "generate_week_plan" =>
           \A s \in dbSessions : s.is_pinned => \E t \in dbSessions' : t.id = s.id]_vars

\* a regeneration has run while a session stored by POST /schedule/sessions is unpinned
C22_WitnessUnpinned ==
    /\ last.op = "generate_week_plan"
    /\ \E s \in last.before_sessions :
           s.generated_by = "manual" /\ s.id >= RFirstId /\ ~ s.is_pinned

(***************************************************************************)
(* Further properties of generate (SpecStore)                              *)
(***************************************************************************)
\* (today - deadline.date()).days for an open task with a deadline, 0 otherwise
DaysOverdue(task, ref) ==
    IF task.is_completed \/ task.is_recurring_template \/ task.deadline = None
    THEN 0 ELSE DateOf(ref) - DateOf(task.deadline)

\* 23:59 of the reference day, or of the following day from 20:00
EndOfRescheduleDay(ref) ==
    IF (ref % Day) \div Hour >= 20 THEN Midnight(ref) + Day + 23 * Hour + 59
    ELSE Midnight(ref) + 23 * Hour + 59

\* C23: generate moves the deadline of every open task that is 1 to 7 days overdue
\* to 23:59 of the reference day (of the following day from 20:00) and raises its
\* priority by one step; a task more than 14 days overdue keeps deadline and priority
C23_OverdueMovedToEndOfDay ==
    [][\A r \in Requests :
          (gen[r].pc = "cleaned" /\ gen'[r].pc = "planned") =>
              \A i \in 1..Len(dbTasks) :
                  LET days_overdue == DaysOverdue(dbTasks[i], gen[r].reference)
                  IN  /\ (days_overdue >= 1 /\ days_overdue <= 7) =>
                             /\ dbTasks'[i].deadline = EndOfRescheduleDay(gen[r].reference)
                             /\ dbTasks'[i].priority = escalate_priority(dbTasks[i].priority)
                      /\ days_overdue > 14 => dbTasks'[i] = dbTasks[i]]_vars

\* what the code keeps: the new deadline lies on that day and the priority rises
C23_OverdueMovedToDay ==
    [][\A r \in Requests :
          (gen[r].pc = "cleaned" /\ gen'[r].pc = "planned") =>
              \A i \in 1..Len(dbTasks) :
                  LET days_overdue == DaysOverdue(dbTasks[i], gen[r].reference)
                  IN  /\ (days_overdue >= 1 /\ days_overdue <= 7) =>
                             /\ DateOf(dbTasks'[i].deadline)
                                    = DateOf(EndOfRescheduleDay(gen[r].reference))
                             /\ dbTasks'[i].priority = escalate_priority(dbTasks[i].priority)
                      /\ days_overdue > 14 => dbTasks'[i] = dbTasks[i]]_vars

(***************************************************************************)
(* Further properties of the planner (SpecPlan)                            *)
(***************************************************************************)
\* the entries of preferred_study_windows that name a window
ValidEntries(raw) ==
    {i \in 1..Len(raw) :
        \/ raw[i].type \in {"legacy", "preset"} /\ IsPresetName(raw[i].name)
        \/ raw[i].type = "custom" /\ parse_custom_range(raw[i]) # <<>>}

\* C24: when preferred_study_windows is empty or holds no valid window, the seven
\* days of the plan of build_weekly_plan all have an empty session list
C24_NoWindowsEmptyPlan ==
    (pUser # <<>> /\ pOffset = PlanDays /\ ValidEntries(pUser.preferred_study_windows) = {}) =>
        /\ Len(pPlans) = PlanDays
        /\ \A d \in 1..Len(pPlans) : pPlans[d].sessions = <<>>

\* what the code does: without a valid window every block of the plan lies in the
\* evening window, 17:00 to 21:00 of the user's local day
C24_NoWindowsEveningPlan ==
    (pUser # <<>> /\ ValidEntries(pUser.preferred_study_windows) = {}) =>
        \A d \in 1..Len(pPlans) : \A k \in 1..Len(pPlans[d].sessions) :
            LET block == pPlans[d].sessions[k]
                range == window_to_range(pPlans[d].day, WINDOW_SCHEDULE("evening"),
                                         pUser.timezone)
            IN  range[1] <= block.start_time /\ block.end_time <= range[2]

\* a plan without a valid window that holds a session
C24_WitnessEvening ==
    /\ pUser # <<>> /\ pOffset = PlanDays
    /\ ValidEntries(pUser.preferred_study_windows) = {}
    /\ \E d \in 1..Len(pPlans) : pPlans[d].sessions # <<>>

\* the same list with every bare preset string tagged and every tagged preset bare
Retag(raw) ==
    [i \in 1..Len(raw) |->
        IF raw[i].type = "legacy" THEN Preset(raw[i].name)
        ELSE IF raw[i].type = "preset" THEN Legacy(raw[i].name)
        ELSE raw[i]]

\* the window that _parse_study_windows takes from entry i of the list (<<>>: none)
Resolved(raw, i) == ParseEach(<<raw[i]>>, raw[1].type = "legacy")

\* the fixed times of the presets, in minutes of the day
PresetTimes(name) ==
    CASE name = "morning" -> <<420, 660>>
      [] name = "afternoon" -> <<720, 990>>
      [] name = "evening" -> <<1020, 1260>>
      [] name = "night" -> <<1260, 1380>>

\* the windows that the claim gives the valid entries of a list
ClaimedWindows(raw) ==
    {IF raw[i].type = "custom"
     THEN <<raw[i].start[1] * 60 + raw[i].start[2], raw[i].end[1] * 60 + raw[i].end[2]>>
     ELSE PresetTimes(raw[i].name) : i \in ValidEntries(raw)}

\* C25: a bare preset string and the tagged preset of the same name resolve to the
\* same window, each preset name resolves to its fixed times, a custom entry
\* resolves to its own HH:MM start and end, and every block of the plan starts
\* in one of these windows
C25_WindowsResolve ==
    pUser # <<>> =>
        LET raw == pUser.preferred_study_windows
        IN  /\ (\A i \in 1..Len(raw) : raw[i].type \in {"legacy", "preset"}) =>
                   parse_study_windows(Retag(raw)) = parse_study_windows(raw)
            /\ \A i \in ValidEntries(raw) :
                   /\ raw[i].type \in {"legacy", "preset"} =>
                          Resolved(raw, i) = <<PresetTimes(raw[i].name)>>
                   /\ raw[i].type = "custom" =>
                          Resolved(raw, i) =
                              << <<raw[i].start[1] * 60 + raw[i].start[2],
                                   raw[i].end[1] * 60 + raw[i].end[2]>> >>
            /\ ValidEntries(raw) # {} =>
                   /\ SeqToSet(parse_study_windows(raw)) = ClaimedWindows(raw)
                   /\ \A d \in 1..Len(pPlans) : \A k \in 1..Len(pPlans[d].sessions) :
                          \E w \in ClaimedWindows(raw) :
                              LET range == window_to_range(pPlans[d].day, w, pUser.timezone)
                                  block == pPlans[d].sessions[k]
                              IN  range[1] <= block.start_time /\ block.start_time <= range[2]

\* a finished plan with sessions for a user whose only window is 18:30 to 20:15
C25_Witness ==
    /\ pUser # <<>> /\ pOffset = PlanDays
    /\ \E i \in ValidEntries(pUser.preferred_study_windows) :
           /\ pUser.preferred_study_windows[i].type = "custom"
           /\ pUser.preferred_study_windows[i].start[2] # 0
    /\ \E d \in 1..Len(pPlans) : pPlans[d].sessions # <<>>

\* a finished plan with sessions for a user with bare preset strings
C25_WitnessLegacy ==
    /\ pUser # <<>> /\ pOffset = PlanDays
    /\ \E i \in ValidEntries(pUser.preferred_study_windows) :
           pUser.preferred_study_windows[i].type = "legacy"
    /\ \E d \in 1..Len(pPlans) : pPlans[d].sessions # <<>>

-----------------------------------------------------------------------------
(* The requests of one user against two stores that differ in the sessions *)
(* of another user                                                         *)

\* the sessions of the user before the requests
XRows == {s \in RRows : s.user_id = SUser.id}

\* states of the other user: no session, a planned session over the user's planned
\* ones, a pinned session left in progress since the early morning
XForeignStates ==
    { {},
      {Row(5, 2, STuesday + 10 * Hour, STuesday + 12 * Hour, "PLANNED", FALSE, "weekly")},
      {Row(5, 2, STuesday + 5 * Hour, STuesday + 6 * Hour + 30, "IN_PROGRESS", TRUE, "manual")} }

\* the sequence of study_sessions.id after the rows of both users
XFirstId(foreign) == Cardinality(XRows) + Cardinality(foreign) + 1

XPatchPayloads ==
    { SessionPayload("COMPLETED", None, None, None, None),
      SessionPayload(NoStatus, None, STuesday + 10 * Hour + 30, None, None) }

XCreatePayloads ==
    { [task_id |-> 1, subject_id |-> 1, start_time |-> STuesday + 10 * Hour + 30,
       end_time |-> STuesday + 11 * Hour + 30, is_pinned |-> b] : b \in BOOLEAN }

Response(code, sessions) == [code |-> code, sessions |-> sessions]

\* the session of the body of a response to PATCH, POST or start
Serialized(rows, session_id, code) ==
    IF code = 200 THEN {s \in rows : s.id = session_id} ELSE {}

XStart ==
    /\ clock = RClock
    /\ dbTasks = << TaskRow(RTask1, "todo", None, FALSE) >>
    /\ \E here \in XForeignStates, there \in XForeignStates :
          /\ here # there
          /\ dbSessions = XRows \cup here
          /\ dbNextId = XFirstId(here)
          /\ twin = [sessions |-> XRows \cup there, tasks |-> dbTasks,
                     next_id |-> XFirstId(there), response |-> Response(0, {})]
    /\ gen = <<>>
    /\ last = NoRequest
    /\ ops = 0
    /\ marked = <<None>>
    /\ response = Response(0, {})

\* the ids a request of the user can name: the sessions of either store
XIds == {s.id : s \in dbSessions \cup twin.sessions}

\* PATCH /schedule/sessions/{session_id} against both stores
XPatchSession(session_id, payload) ==
    /\ ops < MaxOps
    /\ LET r == update_session(dbSessions, dbTasks, session_id, payload, SUser.id, clock)
           x == update_session(twin.sessions, twin.tasks, session_id, payload,
                               SUser.id, clock)
       IN  /\ dbSessions' = r.rows
           /\ dbTasks' = r.tasks
           /\ response' = Response(r.code, Serialized(r.rows, session_id, r.code))
           /\ twin' = [twin EXCEPT !.sessions = x.rows, !.tasks = x.tasks,
                          !.response = Response(x.code,
                                                Serialized(x.rows, session_id, x.code))]
           /\ last' = Request("update_session", r.code, session_id, None, payload)
    /\ ops' = ops + 1
    /\ UNCHANGED <<dbNextId, clock, gen, marked>>
    /\ UNCHANGED <<weightVars, interleaveVars, planVars, recurVars, callVars, energyVars>>

\* POST /schedule/sessions against both stores
XCreateSession(payload) ==
    /\ ops < MaxOps
    /\ LET r == create_session(dbSessions, dbTasks, payload, SUser.id, dbNextId)
           x == create_session(twin.sessions, twin.tasks, payload, SUser.id, twin.next_id)
       IN  /\ dbSessions' = r.rows
           /\ dbNextId' = IF r.code = 200 THEN dbNextId + 1 ELSE dbNextId
           /\ response' = Response(r.code, Serialized(r.rows, dbNextId, r.code))
           /\ twin' = [twin EXCEPT !.sessions = x.rows,
                          !.next_id = IF x.code = 200 THEN @ + 1 ELSE @,
                          !.response = Response(x.code,
                                                Serialized(x.rows, twin.next_id, x.code))]
           /\ last' = Request("create_session", r.code,
                              IF r.code = 200 THEN dbNextId ELSE None, None, payload)
    /\ ops' = ops + 1
    /\ UNCHANGED <<dbTasks, clock, gen, marked>>
    /\ UNCHANGED <<weightVars, interleaveVars, planVars, recurVars, callVars, energyVars>>

\* POST /schedule/sessions/{session_id}/start against both stores
XStartSession(session_id) ==
    /\ ops < MaxOps
    /\ LET r == start_session(dbSessions, session_id, SUser.id)
           x == start_session(twin.sessions, session_id, SUser.id)
       IN  /\ dbSessions' = r.rows
           /\ response' = Response(r.code, Serialized(r.rows, session_id, r.code))
           /\ twin' = [twin EXCEPT !.sessions = x.rows,
                          !.response = Response(x.code,
                                                Serialized(x.rows, session_id, x.code))]
           /\ last' = Request("start_session", r.code, session_id, None, <<>>)
    /\ ops' = ops + 1
    /\ UNCHANGED <<dbTasks, dbNextId, clock, gen, marked>>
    /\ UNCHANGED <<weightVars, interleaveVars, planVars, recurVars, callVars, energyVars>>

\* DELETE /schedule/sessions/{session_id} against both stores
XDeleteSession(session_id) ==
    /\ ops < MaxOps
    /\ LET r == delete_session(dbSessions, session_id, SUser.id)
           x == delete_session(twin.sessions, session_id, SUser.id)
       IN  /\ dbSessions' = r.rows
           /\ response' = Response(r.code, {})
           /\ twin' = [twin EXCEPT !.sessions = x.rows, !.response = Response(x.code, {})]
           /\ last' = Request("delete_session", r.code, session_id, None, <<>>)
    /\ ops' = ops + 1
    /\ UNCHANGED <<dbTasks, dbNextId, clock, gen, marked>>
    /\ UNCHANGED <<weightVars, interleaveVars, planVars, recurVars, callVars, energyVars>>

\* GET /schedule/sessions against both stores
XListSessions ==
    /\ ops < MaxOps
    /\ response' = Response(200, list_sessions(dbSessions, SUser, clock))
    /\ twin' = [twin EXCEPT
                   !.response = Response(200, list_sessions(twin.sessions, SUser, clock))]
    /\ last' = Request("list_sessions", 200, None, None, <<>>)
    /\ ops' = ops + 1
    /\ UNCHANGED <<dbSessions, dbTasks, dbNextId, clock, gen, marked>>
    /\ UNCHANGED <<weightVars, interleaveVars, planVars, recurVars, callVars, energyVars>>

\* POST /schedule/generate against both stores; the plan of the response is built
\* from the user and the tasks
XGenerate ==
    /\ ops < MaxOps
    /\ LET r == generate_week_plan(dbSessions, dbTasks, clock, dbNextId)
           x == generate_week_plan(twin.sessions, twin.tasks, clock, twin.next_id)
       IN  /\ dbSessions' = r.rows
           /\ dbTasks' = r.tasks
           /\ dbNextId' = r.next_id
           /\ response' = Response(200, {})
           /\ twin' = [twin EXCEPT !.sessions = x.rows, !.tasks = x.tasks,
                          !.next_id = x.next_id, !.response = Response(200, {})]
           /\ last' = Request("generate_week_plan", 200, None, None, <<>>)
    /\ ops' = ops + 1
    /\ UNCHANGED <<clock, gen, marked>>
    /\ UNCHANGED <<weightVars, interleaveVars, planVars, recurVars, callVars, energyVars>>

XInit == XStart /\ WIdle /\ IIdle /\ PIdle /\ TIdle /\ CIdle /\ EIdle

XNext ==
    \/ \E id \in XIds, payload \in XPatchPayloads : XPatchSession(id, payload)
    \/ \E payload \in XCreatePayloads : XCreateSession(payload)
    \/ \E id \in XIds : XStartSession(id)
    \/ \E id \in XIds : XDeleteSession(id)
    \/ XListSessions
    \/ XGenerate

SpecTwin == XInit /\ [][XNext]_vars

OwnRows(rows) == {s \in rows : s.user_id = SUser.id}
ForeignRows(rows) == {s \in rows : s.user_id # SUser.id}

\* no response holds a session of another user
NoForeignInResponses ==
    /\ ForeignRows(response.sessions) = {}
    /\ ForeignRows(twin.response.sessions) = {}

\* the requests left the sessions of the other user as they were, in both stores
ForeignUntouched ==
    /\ ForeignRows(dbSessions') = ForeignRows(dbSessions)
    /\ ForeignRows(twin'.sessions) = ForeignRows(twin.sessions)

\* the user got the same responses and has the same rows in both stores
SameForUser ==
    /\ response = twin.response
    /\ OwnRows(dbSessions) = OwnRows(twin.sessions)
    /\ dbTasks = twin.tasks

\* the sequence of session ids began at the same value in both stores (the
\* requests of the user leave the rows of the other user alone)
SameSequence ==
    XFirstId(ForeignRows(dbSessions)) = XFirstId(ForeignRows(twin.sessions))

\* no request has inserted a session yet
NothingInserted ==
    /\ dbNextId = XFirstId(ForeignRows(dbSessions))
    /\ twin.next_id = XFirstId(ForeignRows(twin.sessions))

-----------------------------------------------------------------------------
(* Further properties of interleave_subjects (SpecInterleave) *)

\* the positions of the argument list whose task has the priority p in the map
PositionsWithPriority(p) ==
    {i \in 1..Len(iSessions) :
        /\ iSessions[i].task_id # None
        /\ iSessions[i].task_id \in DOMAIN iPrio
        /\ iPrio[iSessions[i].task_id] = p}

\* C27: called with the map that the planner builds (the values of TaskPriority),
\* interleave_subjects leaves every session of a CRITICAL task at its position
C27_CriticalKeepsPosition ==
    iPc = "done" =>
        \A i \in PositionsWithPriority(PriorityValue("CRITICAL")) : iOut[i] = iSessions[i]

\* what the code keeps: a session whose task the map gives the string "CRITICAL"
\* stays at its position
C27_UpperCaseKeepsPosition ==
    iPc = "done" =>
        \A i \in PositionsWithPriority("CRITICAL") : iOut[i] = iSessions[i]

-----------------------------------------------------------------------------
(* Further properties of the cleanup of generate (SpecStore) *)

\* the status the claim gives a session after a cleanup at now_utc
StatusAfterCleanup(s, now_utc) ==
    IF s.user_id = SUser.id /\ s.status = "IN_PROGRESS" /\ s.end_time < now_utc - 120
    THEN "PARTIAL"
    ELSE IF s.user_id = SUser.id /\ s.status = "PLANNED" /\ s.end_time < now_utc - 15
    THEN "SKIPPED"
    ELSE s.status

\* C28: the cleanup of generate sets to PARTIAL exactly the user's IN_PROGRESS
\* sessions that ended more than two hours before now and to SKIPPED exactly the
\* user's PLANNED sessions that ended more than 15 minutes before now; every other
\* session, also one that ended at the threshold, keeps its status, and no session
\* changes in anything else
C28_CleanupExact ==
    [][\A r \in Requests :
          (gen[r].pc = "idle" /\ gen'[r].pc = "cleaned") =>
              /\ gen'[r].del = {}
              /\ View(r)' = {[s EXCEPT !.status = StatusAfterCleanup(s, clock)] :
                                s \in View(r)}]_vars

\* a cleanup has run at 09:15 over session 4, PLANNED and ended at 09:00, and over
\* session 2, IN_PROGRESS and ended at 01:00
C28_Witness ==
    \E r \in Requests :
        /\ gen[r].pc = "cleaned"
        /\ gen[r].now_utc = STuesday + 9 * Hour + 15
        /\ \E s \in View(r) : s.id = 4 /\ s.status = "PLANNED" /\ s.end_time = gen[r].now_utc - 15
        /\ \E s \in View(r) : s.id = 2 /\ s.status = "PARTIAL"
        /\ \E s \in View(r) : s.id = 3 /\ s.status = "SKIPPED"
        /\ SForeignRow \in View(r)

\* a cleanup has run at 03:00 over session 2, IN_PROGRESS and ended at 01:00
C28_WitnessInProgress ==
    \E r \in Requests :
        /\ gen[r].pc = "cleaned"
        /\ gen[r].now_utc = STuesday + 3 * Hour
        /\ \E s \in View(r) :
               s.id = 2 /\ s.status = "IN_PROGRESS" /\ s.end_time = gen[r].now_utc - 2 * Hour

-----------------------------------------------------------------------------
(* Recurring templates: pattern changes and the end of a recurrence *)

\* no recurrence pattern (None)
NoPattern == <<>>

\* _create_task_instance
create_task_instance(template, deadline, id) ==
    [id |-> id, deadline |-> deadline, is_completed |-> FALSE, status |-> template.status,
     actual_minutes_spent |-> None, timer_minutes_spent |-> 0,
     priority |-> template.priority, estimated_minutes |-> template.estimated_minutes,
     recurring_template_id |-> template.id]

\* "order_by(Task.deadline.asc())" for rows with distinct deadlines
RECURSIVE OrderByDeadline(_)
OrderByDeadline(rows) ==
    IF rows = {} THEN <<>>
    ELSE LET first == CHOOSE t \in rows : \A u \in rows : t.deadline <= u.deadline
         IN  <<first>> \o OrderByDeadline(rows \ {first})

\* the loop of update_uncompleted_instances_for_new_pattern: [updated |-> the
\* instances with their new fields, deleted |-> the ids of the deleted instances,
\* outcome |-> "returns" or "raises"]
RECURSIVE UpdateInstancesFrom(_, _, _, _, _, _)
UpdateInstancesFrom(instances_to_update, template, new_pattern, start_date, end_date, last_deadline) ==
    IF instances_to_update = <<>>
    THEN [updated |-> {}, deleted |-> {}, outcome |-> "returns"]
    ELSE LET instance == Head(instances_to_update)
             new_deadline == calculate_next_occurrence(new_pattern, last_deadline,
                                                       start_date, end_date)
         IN  IF new_deadline = Raised
             THEN [updated |-> {}, deleted |-> {}, outcome |-> "raises"]
             ELSE IF new_deadline = None
             THEN LET rest == UpdateInstancesFrom(Tail(instances_to_update), template,
                                  new_pattern, start_date, end_date, last_deadline)
                  IN  [rest EXCEPT !.deleted = @ \cup {instance.id}]
             ELSE LET rest == UpdateInstancesFrom(Tail(instances_to_update), template,
                                  new_pattern, start_date, end_date, new_deadline)
                  IN  [rest EXCEPT !.updated = @ \cup
                          {[instance EXCEPT !.deadline = new_deadline,
                                            !.priority = template.priority,
                                            !.estimated_minutes = template.estimated_minutes]}]

\* the filter of the instances_to_update query
instances_to_update(template, instances) ==
    {t \in instances :
        /\ t.recurring_template_id = template.id
        /\ ~ t.is_completed
        /\ t.status \notin {"completed", "in_progress"}
        /\ (t.actual_minutes_spent = None \/ t.actual_minutes_spent = 0)}

\* the rows of the session after the loop, r being what the loop did:
\* [instances, committed |-> whether db.commit() was called, outcome]
apply_instance_updates(instances, r) ==
    IF r.outcome = "raises"
    THEN [instances |-> instances, committed |-> FALSE, outcome |-> "raises"]
    ELSE [instances |-> {t \in instances :
                            t.id \notin ({u.id : u \in r.updated} \cup r.deleted)}
                        \cup r.updated,
          committed |-> r.updated # {}, outcome |-> "returns"]

\* update_uncompleted_instances_for_new_pattern
update_uncompleted_instances_for_new_pattern(template, instances, new_pattern) ==
    LET start_date == IF template.deadline # None THEN template.deadline
                      ELSE template.created_at
    IN  IF \/ ~ template.is_recurring_template
           \/ instances_to_update(template, instances) = {}
           \/ start_date = None
        THEN [instances |-> instances, committed |-> FALSE, outcome |-> "returns"]
        ELSE apply_instance_updates(instances,
                 UpdateInstancesFrom(OrderByDeadline(instances_to_update(template, instances)),
                                     template, new_pattern, start_date,
                                     template.recurrence_end_date, start_date))

\* remove_recurrence: [template, instances] afterwards
remove_recurrence(template, instances, now) ==
    LET own == {t \in instances : t.recurring_template_id = template.id}
        instances_to_delete == {t \in own : /\ ~ t.is_completed
                                            /\ (t.deadline = None \/ t.deadline > now)}
        remaining_instances == own \ instances_to_delete
    IN  IF ~ template.is_recurring_template
        THEN [template |-> template, instances |-> instances]
        ELSE [template |-> [template EXCEPT !.is_recurring_template = FALSE,
                                            !.recurrence_pattern = NoPattern,
                                            !.recurrence_end_date = None,
                                            !.next_occurrence_date = None],
              instances |-> (instances \ own) \cup
                  {[t EXCEPT !.recurring_template_id = None] : t \in remaining_instances}]

\* cleanup_instances_past_end_date: the instances afterwards
cleanup_instances_past_end_date(template, instances) ==
    IF ~ template.is_recurring_template \/ template.recurrence_end_date = None
    THEN instances
    ELSE {t \in instances :
             ~ (/\ t.recurring_template_id = template.id
                /\ t.deadline # None
                /\ t.deadline > template.recurrence_end_date)}

\* the value of current_deadline when _generate_instances_loop leaves
RECURSIVE FinalDeadline(_, _, _, _, _)
FinalDeadline(pattern, start_date, target_date, end_date, current_deadline) ==
    IF current_deadline = None \/ current_deadline > target_date THEN current_deadline
    ELSE IF end_date # None /\ current_deadline > end_date THEN current_deadline
    ELSE LET next_deadline == calculate_next_occurrence(pattern, current_deadline,
                                                        start_date, end_date)
         IN  IF next_deadline = Raised THEN current_deadline
             ELSE IF next_deadline # None /\ next_deadline <= current_deadline
             THEN current_deadline
             ELSE FinalDeadline(pattern, start_date, target_date, end_date, next_deadline)

RECURSIVE MaxId(_)
MaxId(rows) ==
    IF rows = {} THEN 0
    ELSE LET t == CHOOSE t \in rows : TRUE
             rest == MaxId(rows \ {t})
         IN  IF t.id > rest THEN t.id ELSE rest

\* the end of generate_recurring_instances, r being what its loop returned and
\* current_deadline where the loop stopped: the new rows are added and
\* _update_template_next_occurrence_with_advance is called when there are any.
\* [template, instances, outcome, committed |-> whether db.commit() was called]
add_new_instances(template, instances, r, current_deadline, first_id) ==
    IF r.outcome # "returns" \/ r.new = <<>>
    THEN [template |-> template, instances |-> instances, outcome |-> r.outcome,
          committed |-> FALSE]
    ELSE [template |-> IF current_deadline = None THEN template
                       ELSE [template EXCEPT !.next_occurrence_date = current_deadline],
          instances |-> instances \cup
              {create_task_instance(template, r.new[i], first_id + i - 1) :
                   i \in 1..Len(r.new)},
          outcome |-> "returns", committed |-> TRUE]

\* generate_recurring_instances(db, template, weeks_ahead) on the rows of the
\* session
generate_and_advance(template, instances, now, weeks_ahead) ==
    LET end_date == template.recurrence_end_date
        ahead == now + weeks_ahead * 7 * Day
        target_date == IF end_date # None /\ ahead > end_date THEN end_date ELSE ahead
        existing_instances == {t \in instances : t.recurring_template_id = template.id}
        start_date == calculate_start_date(template,
                                           get_last_occurrence_date(existing_instances))
    IN  IF ~ template.is_recurring_template \/ template.recurrence_pattern = NoPattern
        THEN [template |-> template, instances |-> instances, outcome |-> "returns",
              committed |-> FALSE]
        ELSE add_new_instances(template, instances,
                 generate_recurring_instances(template, instances, now, weeks_ahead),
                 FinalDeadline(template.recurrence_pattern, start_date, target_date,
                               end_date, start_date),
                 1 + MaxId(instances \cup {template}))

\* A TaskUpdate payload for a template is [fields_set, is_recurring_template,
\* recurrence_pattern, recurrence_end_date].
\* _apply_field_updates for these fields
apply_recurrence_fields(task, payload) ==
    [task EXCEPT
        !.is_recurring_template = IF "is_recurring_template" \in payload.fields_set
                                  THEN payload.is_recurring_template ELSE @,
        !.recurrence_pattern = IF "recurrence_pattern" \in payload.fields_set
                               THEN payload.recurrence_pattern ELSE @,
        !.recurrence_end_date = IF "recurrence_end_date" \in payload.fields_set
                                THEN payload.recurrence_end_date ELSE @]

\* The steps of update_task give [template, instances |-> the rows of the
\* session, outcome, committed |-> the template and rows of the last db.commit()].
\* the state after a call of generate_recurring_instances, g being its result
after_generation(h, g) ==
    [template |-> g.template, instances |-> g.instances, outcome |-> g.outcome,
     committed |-> IF g.committed THEN [template |-> g.template, instances |-> g.instances]
                   ELSE h.committed]

\* the state after the call of update_uncompleted_instances_for_new_pattern, u
\* being its result
after_pattern_update(task, u, before) ==
    [template |-> task, instances |-> u.instances, outcome |-> u.outcome,
     committed |-> IF u.committed THEN [template |-> task, instances |-> u.instances]
                   ELSE before]

\* the state after the call of remove_recurrence, r being its result
after_removal(r) ==
    [template |-> r.template, instances |-> r.instances, outcome |-> "returns",
     committed |-> r]

\* "if new_pattern: generate_recurring_instances(db, task, weeks_ahead=2)"
generate_for_pattern(h, now) ==
    IF h.outcome = "returns" /\ h.template.recurrence_pattern # NoPattern
    THEN after_generation(h, generate_and_advance(h.template, h.instances, now, 2))
    ELSE h

\* _handle_recurrence_pattern_update
handle_recurrence_pattern_update(task, instances, old_pattern, fields_set, now, before) ==
    LET new_pattern == task.recurrence_pattern
        unchanged == [instances |-> instances, committed |-> FALSE, outcome |-> "returns"]
    IN  IF "recurrence_pattern" \notin fields_set
        THEN after_pattern_update(task, unchanged, before)
        ELSE IF new_pattern = NoPattern /\ task.is_recurring_template
        THEN after_removal(remove_recurrence(task, instances, now))
        ELSE IF ~ task.is_recurring_template
        THEN after_pattern_update(task, unchanged, before)
        ELSE generate_for_pattern(
                 after_pattern_update(task,
                     IF /\ old_pattern # NoPattern /\ new_pattern # NoPattern
                        /\ old_pattern # new_pattern
                     THEN update_uncompleted_instances_for_new_pattern(task, instances,
                                                                       new_pattern)
                     ELSE unchanged,
                     before),
                 now)

\* _handle_making_recurring, h being the state it is called in
handle_making_recurring(h, old_pattern, fields_set, now) ==
    IF /\ h.outcome = "returns"
       /\ "is_recurring_template" \in fields_set
       /\ h.template.is_recurring_template
       /\ h.template.recurrence_pattern # NoPattern
       /\ old_pattern = NoPattern
    THEN after_generation(h, generate_and_advance(h.template, h.instances, now, 2))
    ELSE h

\* the end of update_task: cleanup_instances_past_end_date and db.commit(); a
\* request that raises or does not end leaves what was committed before
finish_update(h, fields_set) ==
    IF h.outcome # "returns"
    THEN [template |-> h.committed.template, instances |-> h.committed.instances,
          outcome |-> h.outcome]
    ELSE [template |-> h.template,
          instances |-> IF "recurrence_end_date" \in fields_set
                        THEN cleanup_instances_past_end_date(h.template, h.instances)
                        ELSE h.instances,
          outcome |-> "returns"]

\* the branch of update_task on the recurrence fields, task being the row after
\* _apply_field_updates
handle_recurrence(task, instances, old_pattern, old_is_recurring_template, fields_set, now, before) ==
    IF /\ "is_recurring_template" \in fields_set
       /\ ~ task.is_recurring_template /\ old_is_recurring_template
    THEN after_removal(remove_recurrence(task, instances, now))
    ELSE handle_making_recurring(
             handle_recurrence_pattern_update(task, instances, old_pattern, fields_set,
                                              now, before),
             old_pattern, fields_set, now)

\* update_task on a template, for the recurrence fields: [template, instances]
\* as committed when the request ends, and its outcome
update_template(task, instances, payload, now) ==
    finish_update(
        handle_recurrence(apply_recurrence_fields(task, payload), instances,
                          IF task.is_recurring_template THEN task.recurrence_pattern
                          ELSE NoPattern,
                          task.is_recurring_template, payload.fields_set, now,
                          [template |-> task, instances |-> instances]),
        payload.fields_set)

-----------------------------------------------------------------------------
(* PATCH /tasks/{id} on one recurring template and its instances           *)

\* the template: every Wednesday from Wednesday 3 January 18:00, edited to HIGH
\* priority and 45 minutes after its instances were created
SeriesTemplate(end_date) ==
    [id |-> 1, is_recurring_template |-> TRUE,
     recurrence_pattern |-> Pattern("weekly", 1, FALSE, <<2>>, None, None),
     deadline |-> 2 * Day + 18 * Hour, created_at |-> Day,
     recurrence_end_date |-> end_date, next_occurrence_date |-> 30 * Day + 18 * Hour,
     priority |-> "high", estimated_minutes |-> 45, status |-> "todo"]

SeriesRow(id, deadline, status, actual, timer, template_id) ==
    [id |-> id, deadline |-> deadline, is_completed |-> status = "completed",
     status |-> status, actual_minutes_spent |-> actual, timer_minutes_spent |-> timer,
     priority |-> "medium", estimated_minutes |-> 60, recurring_template_id |-> template_id]

\* the instances of Wednesday 3, 10, 17, 24 and 31 January and 7 February, and
\* a task of no series
SeriesPool ==
    { SeriesRow(2, 2 * Day + 18 * Hour, "completed", 60, 0, 1),
      SeriesRow(3, 9 * Day + 18 * Hour, "todo", None, 0, 1),
      SeriesRow(4, 16 * Day + 18 * Hour, "todo", None, 0, 1),
      SeriesRow(5, 23 * Day + 18 * Hour, "in_progress", None, 0, 1),
      SeriesRow(6, 30 * Day + 18 * Hour, "todo", None, 20, 1),
      SeriesRow(7, 37 * Day + 18 * Hour, "todo", 30, 0, 1),
      SeriesRow(8, 17 * Day + 12 * Hour, "todo", None, 0, None) }

NoFields ==
    [fields_set |-> {}, is_recurring_template |-> FALSE, recurrence_pattern |-> NoPattern,
     recurrence_end_date |-> None]

\* the request bodies
SeriesPayloads ==
    { [NoFields EXCEPT !.fields_set = {"is_recurring_template"}],
      [NoFields EXCEPT !.fields_set = {"recurrence_pattern"}],
      [NoFields EXCEPT !.fields_set = {"is_recurring_template", "recurrence_pattern"}],
      [NoFields EXCEPT !.fields_set = {"recurrence_pattern"},
                       !.recurrence_pattern = Pattern("weekly", 1, FALSE, <<4>>, None, None)],
      [NoFields EXCEPT !.fields_set = {"recurrence_pattern"},
                       !.recurrence_pattern = Pattern("daily", 2, FALSE, <<>>, None, None)],
      [NoFields EXCEPT !.fields_set = {"is_recurring_template", "recurrence_pattern"},
                       !.is_recurring_template = TRUE,
                       !.recurrence_pattern = Pattern("weekly", 1, FALSE, <<2>>, None, None)],
      [NoFields EXCEPT !.fields_set = {"recurrence_end_date"},
                       !.recurrence_end_date = 25 * Day + 18 * Hour] }

\* the requests arrive on Monday 15 January at 09:00
SeriesStart ==
    /\ \E end_date \in TEndDates : rTemplate = SeriesTemplate(end_date)
    /\ rInstances \in SUBSET SeriesPool
    /\ rNow = 14 * Day + 9 * Hour
    /\ rWeeks = 2
    /\ rLast = [op |-> "none", payload |-> NoFields, outcome |-> "returns",
                before |-> {}, template |-> rTemplate]
    /\ rCalls = 0

\* PATCH /tasks/{id} on the template (update_task)
UpdateTemplate(payload) ==
    /\ rCalls < MaxCalls
    /\ LET r == update_template(rTemplate, rInstances, payload, rNow)
       IN  /\ rTemplate' = r.template
           /\ rInstances' = r.instances
           /\ rLast' = [op |-> "update", payload |-> payload, outcome |-> r.outcome,
                        before |-> rInstances, template |-> rTemplate]
    /\ rCalls' = rCalls + 1
    /\ UNCHANGED <<rNow, rWeeks>>
    /\ UNCHANGED <<weightVars, interleaveVars, planVars, storeVars, routeVars, twinVars, callVars, energyVars>>

SeriesInit == SeriesStart /\ WIdle /\ IIdle /\ PIdle /\ SIdle /\ RIdle /\ XIdle /\ CIdle /\ EIdle

SeriesNext == \E payload \in SeriesPayloads : UpdateTemplate(payload)

SpecSeries == SeriesInit /\ [][SeriesNext]_vars

\* the request turns recurrence off on a template
TurnsOff ==
    /\ rLast.op = "update" /\ rLast.outcome = "returns"
    /\ rLast.template.is_recurring_template
    /\ \/ ("is_recurring_template" \in rLast.payload.fields_set
             /\ ~ rLast.payload.is_recurring_template)
       \/ ("recurrence_pattern" \in rLast.payload.fields_set
             /\ rLast.payload.recurrence_pattern = NoPattern)

\* the rows that were instances of the template before the request
OwnBefore == {t \in rLast.before : t.recurring_template_id = rLast.template.id}

\* what remove_recurrence is to leave behind
RecurrenceRemoved ==
    /\ \A t \in OwnBefore :
          IF ~ t.is_completed /\ t.deadline > rNow
          THEN \A u \in rInstances : u.id # t.id
          ELSE [t EXCEPT !.recurring_template_id = None] \in rInstances
    /\ \A u \in rInstances : u.recurring_template_id # rTemplate.id
    /\ rTemplate.recurrence_pattern = NoPattern
    /\ rTemplate.recurrence_end_date = None
    /\ rTemplate.next_occurrence_date = None

\* C29: after an update that turns recurrence off on a template, no uncompleted
\* instance with a future deadline remains, every remaining instance has its
\* recurring_template_id cleared and is kept as an ordinary task, and the
\* template's recurrence_pattern, recurrence_end_date and next_occurrence_date
\* are cleared
C29_TurnOffRemovesRecurrence == TurnsOff => RecurrenceRemoved

\* the same for the updates that keep is_recurring_template out of the body and
\* send recurrence_pattern = null
C29_NullPatternRemovesRecurrence ==
    (TurnsOff /\ "is_recurring_template" \notin rLast.payload.fields_set)
        => (RecurrenceRemoved /\ ~ rTemplate.is_recurring_template)

\* is_recurring_template = false was sent to a template with a future
\* uncompleted instance and a completed one
C29_Witness ==
    /\ TurnsOff
    /\ rLast.payload.fields_set = {"is_recurring_template"}
    /\ \E t \in OwnBefore : ~ t.is_completed /\ t.deadline > rNow
    /\ \E t \in OwnBefore : t.is_completed

\* recurrence_pattern = null was sent to such a template
C29_WitnessNullPattern ==
    /\ TurnsOff
    /\ rLast.payload.fields_set = {"recurrence_pattern"}
    /\ \E t \in OwnBefore : ~ t.is_completed /\ t.deadline > rNow
    /\ \E t \in OwnBefore : ~ t.is_completed /\ t.deadline <= rNow
    /\ \E t \in OwnBefore : t.is_completed

\* the request replaces the pattern of a recurring template by another one
PatternChanged ==
    /\ rLast.op = "update" /\ rLast.outcome = "returns"
    /\ rLast.payload.fields_set = {"recurrence_pattern"}
    /\ rLast.template.is_recurring_template
    /\ rLast.template.recurrence_pattern # NoPattern
    /\ rLast.payload.recurrence_pattern # NoPattern
    /\ rLast.payload.recurrence_pattern # rLast.template.recurrence_pattern

\* the rows of before the request that the request changed or deleted
ChangedOrDeleted == {t \in rLast.before : t \notin rInstances}

\* C30: a pattern change changes or deletes only instances of the template that
\* are not completed, not in progress and have no time spent, neither session
\* minutes nor timer minutes; every other instance keeps its deadline and all
\* its other fields
C30_OnlyUntouchedInstancesChange ==
    PatternChanged =>
        \A t \in ChangedOrDeleted :
            /\ t.recurring_template_id = rLast.template.id
            /\ ~ t.is_completed
            /\ t.status \notin {"completed", "in_progress"}
            /\ total_minutes_spent(t) = 0

\* the same with the session minutes alone: an instance that has timer minutes
\* only may be changed or deleted
C30_OnlyInstancesWithoutSessionMinutesChange ==
    PatternChanged =>
        \A t \in ChangedOrDeleted :
            /\ t.recurring_template_id = rLast.template.id
            /\ ~ t.is_completed
            /\ t.status \notin {"completed", "in_progress"}
            /\ (t.actual_minutes_spent = None \/ t.actual_minutes_spent = 0)

\* a pattern change moved an instance while a completed instance, one in
\* progress, one with session minutes and a task of no series were there
C30_Witness ==
    /\ PatternChanged
    /\ \E t \in ChangedOrDeleted : \E u \in rInstances :
           u.id = t.id /\ u.deadline # t.deadline /\ u.priority = rTemplate.priority
    /\ \E t \in rLast.before : t.is_completed
    /\ \E t \in rLast.before : t.status = "in_progress"
    /\ \E t \in rLast.before : t.actual_minutes_spent = 30
    /\ \E t \in rLast.before : t.recurring_template_id = None

\* a pattern change deleted an instance, the new pattern having no date for it
\* before the end date
C30_WitnessDeleted ==
    /\ PatternChanged
    /\ \E t \in ChangedOrDeleted : \A u \in rInstances : u.id # t.id

-----------------------------------------------------------------------------
(* calculate_next_occurrence on bounded arguments *)

\* patterns with interval >= 1, day_of_month in 1..31, week_of_month in 1..4,
\* or neither monthly field
OPatterns ==
    { Pattern("daily", i, w, <<>>, None, None) : i \in {1, 2}, w \in BOOLEAN }
    \cup { Pattern("weekly", i, FALSE, days, None, None) :
               i \in {1, 2, 3}, days \in {<<>>, <<2>>, <<0, 2>>, <<4, 1>>} }
    \cup { Pattern("biweekly", 1, FALSE, days, None, None) : days \in {<<>>, <<0, 2>>} }
    \cup { Pattern("monthly", 1, FALSE, <<>>, d, None) : d \in {1, 15, 30, 31} }
    \cup { Pattern("monthly", 1, FALSE, days, None, w) :
               w \in {1, 4}, days \in {<<>>, <<2>>} }
    \cup { Pattern("monthly", 1, FALSE, <<>>, None, None) }

\* the last occurrence: Wednesday 3, Saturday 6, Sunday 7, Monday 15, Tuesday 30
\* and Wednesday 31 January, Saturday 10 and Thursday 29 February, Sunday 31
\* March, at 18:00
OBaseDates == {d * Day + 18 * Hour : d \in {2, 5, 6, 14, 29, 30, 40, 59, 90}}

\* recurrence_end_date: none, Friday 26 January 18:00, Friday 1 March 12:00
OEndDates == {None, 25 * Day + 18 * Hour, 60 * Day + 12 * Hour}

OStart ==
    /\ \E pattern \in OPatterns, base \in OBaseDates, end_date \in OEndDates :
           args = [pattern |-> pattern, last_occurrence_date |-> base,
                   start_date |-> 2 * Day + 18 * Hour, end_date |-> end_date]
    /\ frame = <<>>
    /\ pc = "call"

\* the call calculate_next_occurrence(pattern, last_occurrence_date, start_date,
\* end_date)
CallNextOccurrence ==
    /\ pc = "call"
    /\ frame' = [result |-> calculate_next_occurrence(args.pattern,
                                args.last_occurrence_date, args.start_date, args.end_date)]
    /\ pc' = "returned"
    /\ UNCHANGED args
    /\ UNCHANGED <<weightVars, interleaveVars, planVars, storeVars, routeVars, recurVars>>
    /\ UNCHANGED <<twinVars, energyVars>>

OInit == OStart /\ WIdle /\ IIdle /\ PIdle /\ SIdle /\ RIdle /\ TIdle /\ XIdle /\ EIdle

ONext == CallNextOccurrence

SpecOccur == OInit /\ [][ONext]_vars

\* the call returned a datetime
ReturnedDate == pc = "returned" /\ frame.result # None /\ frame.result # Raised

\* C31: the call returns none or a datetime whose date is strictly after the
\* base date, and never a datetime after end_date
C31_NextStrictlyAfterBase ==
    pc = "returned" =>
        /\ frame.result # Raised
        /\ frame.result # None =>
               /\ DateOf(frame.result) > DateOf(args.last_occurrence_date)
               /\ args.end_date # None => frame.result <= args.end_date

\* the same for the patterns that are not monthly, and for the monthly patterns
\* with week_of_month; for every pattern the call returns none or a datetime that
\* is not after end_date
C31_NextStrictlyAfterBaseUnlessDayOfMonth ==
    pc = "returned" =>
        /\ frame.result # Raised
        /\ frame.result # None =>
               /\ (args.pattern.frequency # "monthly" \/ args.pattern.week_of_month # None)
                      => DateOf(frame.result) > DateOf(args.last_occurrence_date)
               /\ args.end_date # None => frame.result <= args.end_date

\* a monthly pattern with neither field gave a datetime
C31_WitnessNeitherField ==
    /\ ReturnedDate
    /\ args.pattern.frequency = "monthly"
    /\ args.pattern.day_of_month = None /\ args.pattern.week_of_month = None

\* a call with an end date returned none for a date after it
C31_WitnessPastEnd ==
    /\ pc = "returned" /\ frame.result = None
    /\ args.end_date # None /\ DateOf(args.last_occurrence_date) < DateOf(args.end_date)

-----------------------------------------------------------------------------
(* One call of generate_recurring_instances, one step of its loop at a time *)

\* new_instances is kept up to this length; a longer list is cut
MaxNew == 30

\* the instances of the template before the call: none, or the one of its deadline
LExisting(template) ==
    { {},
      {[id |-> 2, deadline |-> template.deadline, is_completed |-> FALSE,
        recurring_template_id |-> template.id]} }

LStart ==
    /\ \E pattern \in TPatterns, deadline \in TDeadlines, end_date \in TEndDates :
           LET template == [id |-> 1, recurrence_pattern |-> pattern, deadline |-> deadline,
                            created_at |-> Day, recurrence_end_date |-> end_date]
           IN  \E existing \in LExisting(template), now \in TNows, weeks \in TWeeksAhead :
                   args = [template |-> template, existing_instances |-> existing,
                           now |-> now, weeks_ahead |-> weeks]
    /\ frame = <<>>
    /\ pc = "call"

\* generate_recurring_instances up to the call of _generate_instances_loop
EnterLoop ==
    /\ pc = "call"
    /\ LET end_date == args.template.recurrence_end_date
           ahead == args.now + args.weeks_ahead * 7 * Day
           target_date == IF end_date # None /\ ahead > end_date THEN end_date ELSE ahead
           start_date == calculate_start_date(args.template,
                             get_last_occurrence_date(args.existing_instances))
       IN  /\ frame' = [start_date |-> start_date, target_date |-> target_date,
                        end_date |-> end_date, current_deadline |-> start_date,
                        new_instances |-> <<>>]
           /\ pc' = IF start_date = None THEN "returned" ELSE "while"
    /\ UNCHANGED args
    /\ UNCHANGED <<weightVars, interleaveVars, planVars, storeVars, routeVars, recurVars>>
    /\ UNCHANGED <<twinVars, energyVars>>

\* "while current_deadline and current_deadline <= target_date" and the break
\* on end_date
TestLoop ==
    /\ pc = "while"
    /\ pc' = IF \/ frame.current_deadline = None
                \/ frame.current_deadline > frame.target_date
                \/ (frame.end_date # None /\ frame.current_deadline > frame.end_date)
             THEN "returned" ELSE "body"
    /\ UNCHANGED <<args, frame>>
    /\ UNCHANGED <<weightVars, interleaveVars, planVars, storeVars, routeVars, recurVars>>
    /\ UNCHANGED <<twinVars, energyVars>>

\* new_instances.append(instance)
AppendNew(new_instances, deadline) ==
    IF Len(new_instances) < MaxNew THEN Append(new_instances, deadline) ELSE new_instances

\* the body of the loop: the instance of current_deadline is created unless one
\* exists for the date, and current_deadline becomes the next occurrence
StepLoop ==
    /\ pc = "body"
    /\ LET next_deadline == calculate_next_occurrence(args.template.recurrence_pattern,
                                frame.current_deadline, frame.start_date, frame.end_date)
           exists == instance_exists_for_date(args.existing_instances,
                                              frame.current_deadline)
       IN  IF next_deadline = Raised
           THEN pc' = "raised" /\ UNCHANGED frame
           ELSE /\ pc' = "while"
                /\ frame' = [frame EXCEPT
                       !.current_deadline = next_deadline,
                       !.new_instances = IF exists THEN @
                                         ELSE AppendNew(@, frame.current_deadline)]
    /\ UNCHANGED args
    /\ UNCHANGED <<weightVars, interleaveVars, planVars, storeVars, routeVars, recurVars>>
    /\ UNCHANGED <<twinVars, energyVars>>

LInit == LStart /\ WIdle /\ IIdle /\ PIdle /\ SIdle /\ RIdle /\ TIdle /\ XIdle /\ EIdle

LNext == EnterLoop \/ TestLoop \/ StepLoop

\* the thread of the call keeps running
SpecLoop == LInit /\ [][LNext]_vars /\ WF_vars(LNext)

\* C32: generate_recurring_instances terminates for every template and pattern
C32_GenerationTerminates == <>(pc \in {"returned", "raised"})

\* monthly patterns that name a day_of_month or no field at all
MonthlyByDay ==
    /\ args.template.recurrence_pattern.frequency = "monthly"
    /\ args.template.recurrence_pattern.week_of_month = None

\* the call terminates for the daily, weekly and biweekly patterns and for the
\* monthly patterns with week_of_month, and what it creates lies inside the
\* horizon and before the end date
C32_GenerationTerminatesUnlessMonthlyByDay ==
    /\ (~ MonthlyByDay) => <>(pc = "returned")
    /\ [](pc = "returned" =>
            \A i \in 1..Len(frame.new_instances) :
                /\ frame.new_instances[i] <= args.now + args.weeks_ahead * 7 * Day
                /\ frame.end_date # None => frame.new_instances[i] <= frame.end_date)

\* the loop has gone round more often than the horizon has days
C32_WitnessLongLoop == pc = "while" /\ Len(frame.new_instances) = MaxNew

-----------------------------------------------------------------------------
(* build_weekly_plan on windows in any order: reversed, overlapping, overnight *)

\* evening before morning; two windows that overlap; a window in the early
\* morning with one over midnight; a window over midnight alone; one short window
QWindowChoices ==
    { <<Preset("evening"), Preset("morning")>>,
      <<Custom(<<8, 0>>, <<10, 0>>), Custom(<<9, 0>>, <<11, 0>>)>>,
      <<Custom(<<0, 0>>, <<2, 0>>), Custom(<<22, 0>>, <<2, 0>>)>>,
      <<Custom(<<22, 0>>, <<2, 0>>)>>,
      <<Custom(<<18, 30>>, <<20, 15>>)>> }

\* the heavier week of PTaskChoices, and a week whose first task has session and
\* timer minutes on it
QTaskChoices(reference) ==
    { << OpenTask(1, "CRITICAL", 1, reference + Day, 300),
         OpenTask(2, "HIGH", 1, None, 420),
         OpenTask(3, "LOW", 2, reference + 3 * Day, 240) >>,
      << [OpenTask(4, "HIGH", 1, reference + 2 * Day, 180)
             EXCEPT !.actual_minutes_spent = 45, !.timer_minutes_spent = 15],
         OpenTask(5, "MEDIUM", 1, None, 200),
         OpenTask(6, "LOW", 2, reference + Day, 95),
         [OpenTask(7, "CRITICAL", 2, reference + Day, 60)
             EXCEPT !.actual_minutes_spent = 50, !.timer_minutes_spent = 30] >> }

QStart ==
    /\ \E tz \in {-300, 0}, windows \in QWindowChoices, break_duration \in {5, 15} :
          pUser = [id |-> 1, timezone |-> tz, preferred_study_windows |-> windows,
                   max_session_length |-> 60, break_duration |-> break_duration]
    /\ pConstraints = <<>>
    /\ pRef \in PRefChoices
    /\ pEnergy = <<>>
    /\ \E tasks \in QTaskChoices(pRef) :
          pTasks = calculate_weights(tasks, PSubjects, pRef, pUser.timezone)
    /\ pOffset = 0
    /\ pPlans = <<>>

QInit == QStart /\ WIdle /\ IIdle /\ SIdle /\ RIdle /\ TIdle /\ XIdle /\ CIdle /\ EIdle

QNext == PPlanDay

SpecWindows == QInit /\ [][QNext]_vars

\* the local date of the day the next PPlanDay plans
NextDayDate == DateOf(ToLocal(local_day_start(pRef, pUser.timezone) + pOffset * Day, pUser.timezone))

\* the key of the day's re-rank for the task of a block, read off the task list
\* the day starts with
BlockKey(block) ==
    DeadlinePriority(CHOOSE wt \in SeqToSet(pTasks) : wt.task.id = block.task_id,
                     NextDayDate, pUser.timezone)

ServedInRankOrder(sessions) ==
    \A a \in SeqToSet(sessions), b \in SeqToSet(sessions) :
        a.start_time < b.start_time => ~KeyLess(BlockKey(b), BlockKey(a))

\* C33: within one day, in start-time order, the blocks follow the day's
\* re-rank: no block of a task whose deadline's local date is on or before the
\* day starts after a block of a task with a later or no deadline, and within
\* each group no block of a heavier task starts after a block of a lighter one
C33_BlocksFollowDayRank ==
    [][PPlanDay => ServedInRankOrder(pPlans'[Len(pPlans')].sessions)]_vars

\* a day on which a task that has become urgent (LOW, weight below the other's)
\* is served before a heavier task without a deadline
C33_Witness ==
    /\ Len(pPlans) >= 2
    /\ \E d \in 2..Len(pPlans) :
         \E a \in SeqToSet(pPlans[d].sessions), b \in SeqToSet(pPlans[d].sessions) :
            /\ a.task_id \in {3, 6}
            /\ b.task_id \in {2, 5}
            /\ a.start_time < b.start_time

-----------------------------------------------------------------------------
(* _round_to_nearest_minutes on datetimes with seconds *)

\* Python's round(num / den): to the nearest integer, a tie to the even one
PyRound(num, den) ==
    LET q == num \div den
        r == num % den
    IN  IF 2 * r < den THEN q
        ELSE IF 2 * r > den THEN q + 1
        ELSE IF q % 2 = 0 THEN q ELSE q + 1

\* _round_to_nearest_minutes on a datetime given as its minute of the calendar
\* and its second: the result in seconds of the calendar. replace() sets minute,
\* second and microsecond and leaves the hour as it is
round_datetime_to_nearest_minutes(dt, second, minutes) ==
    LET total_seconds == (dt % Hour) * 60 + second
        rounded_minutes == PyRound(total_seconds, minutes * 60) * minutes
    IN  (dt - (dt % Hour) + (rounded_minutes % 60)) * 60

\* every minute of Tuesday 09:00-09:59 and 23:00-23:59, at second 0, 30 and 59
RoundHours == {9, 23}
RoundSeconds == {0, 30, 59}

RoundStart ==
    /\ \E h \in RoundHours, minute \in 0..59, second \in RoundSeconds :
          args = [dt |-> 8 * Day + h * Hour + minute, second |-> second, minutes |-> 5]
    /\ frame = <<>>
    /\ pc = "call"

CallRound ==
    /\ pc = "call"
    /\ frame' = [result |-> round_datetime_to_nearest_minutes(args.dt, args.second,
                                                              args.minutes)]
    /\ pc' = "returned"
    /\ UNCHANGED args
    /\ UNCHANGED <<weightVars, interleaveVars, planVars, storeVars, routeVars, recurVars>>
    /\ UNCHANGED <<twinVars, energyVars>>

RoundInit == RoundStart /\ WIdle /\ IIdle /\ PIdle /\ SIdle /\ RIdle /\ TIdle /\ XIdle /\ EIdle

RoundNext == CallRound

SpecRound == RoundInit /\ [][RoundNext]_vars

\* seconds between the argument and the result
RoundDistance ==
    LET given == args.dt * 60 + args.second
    IN  IF frame.result >= given THEN frame.result - given ELSE given - frame.result

OnBoundary == frame.result % (5 * 60) = 0

\* C34: the result of _round_to_nearest_minutes(dt, 5) lies on a 5-minute
\* boundary and is at most 2.5 minutes (150 seconds) away from dt
C34_RoundsToNearestBoundary ==
    pc = "returned" => OnBoundary /\ RoundDistance <= 150

\* what holds: the result is on a 5-minute boundary; it is within 150 seconds of
\* dt up to minute 57 second 29, and from 57:30 on it is the start of the hour
\* dt lies in
C34_RoundsWithinTheHour ==
    pc = "returned" =>
        /\ OnBoundary
        /\ (args.dt % Hour) * 60 + args.second < 57 * 60 + 30 => RoundDistance <= 150
        /\ (args.dt % Hour) * 60 + args.second >= 57 * 60 + 30 =>
              frame.result = (args.dt - (args.dt % Hour)) * 60

C34_WitnessLastMinutes ==
    /\ pc = "returned"
    /\ args.dt % Hour = 58
    /\ RoundDistance = 58 * 60

\* on whole minutes the planner's operator gives the same instant
C34_SameOnWholeMinutes ==
    pc = "returned" /\ args.second = 0 =>
        frame.result = round_to_nearest_minutes(args.dt, args.minutes) * 60

-----------------------------------------------------------------------------
(* POST /energy/ from several requests at once *)

MaxUpserts == 3
EUsers == {1, 2}
EDays == {8, 9}
ELevels == {"low", "high"}

\* the rows of daily_energy for one user and day; the table has a primary key
\* and no unique constraint on (user_id, day)
RowsFor(rows, user_id, day) == {row \in rows : row.user_id = user_id /\ row.day = day}

NoUpsert == [pc |-> "idle", user_id |-> None, day |-> None, level |-> "none", record |-> None]

EStart ==
    /\ energyRows = {}
    /\ upsert = [r \in 1..MaxUpserts |-> NoUpsert]

\* a request arrives: the handler runs in a worker thread with its own Session
BeginUpsert(r) ==
    /\ upsert # <<>>
    /\ upsert[r].pc = "idle"
    /\ \E user_id \in EUsers, day \in EDays, level \in ELevels :
          upsert' = [upsert EXCEPT ![r] = [pc |-> "query", user_id |-> user_id,
                                           day |-> day, level |-> level, record |-> None]]
    /\ UNCHANGED energyRows
    /\ UNCHANGED <<weightVars, interleaveVars, planVars, storeVars, routeVars, recurVars>>
    /\ UNCHANGED <<twinVars, callVars>>

\* record = db.query(DailyEnergy).filter(...).first(): the id of one of the
\* committed rows, no order being asked for, or None
QueryRecord(r) ==
    /\ upsert # <<>>
    /\ upsert[r].pc = "query"
    /\ LET found == RowsFor(energyRows, upsert[r].user_id, upsert[r].day)
       IN  \E record \in IF found = {} THEN {None} ELSE {row.id : row \in found} :
              upsert' = [upsert EXCEPT ![r].record = record, ![r].pc = "commit"]
    /\ UNCHANGED energyRows
    /\ UNCHANGED <<weightVars, interleaveVars, planVars, storeVars, routeVars, recurVars>>
    /\ UNCHANGED <<twinVars, callVars>>

\* record.level = payload.level, or a new DailyEnergy; db.add; db.commit
CommitUpsert(r) ==
    /\ upsert # <<>>
    /\ upsert[r].pc = "commit"
    /\ energyRows' =
          IF upsert[r].record # None
          THEN {IF row.id = upsert[r].record THEN [row EXCEPT !.level = upsert[r].level]
                ELSE row : row \in energyRows}
          ELSE energyRows \cup {[id |-> Cardinality(energyRows) + 1,
                                 user_id |-> upsert[r].user_id,
                                 day |-> upsert[r].day,
                                 level |-> upsert[r].level]}
    /\ upsert' = [upsert EXCEPT ![r].pc = "done"]
    /\ UNCHANGED <<weightVars, interleaveVars, planVars, storeVars, routeVars, recurVars>>
    /\ UNCHANGED <<twinVars, callVars>>

EInit == EStart /\ WIdle /\ IIdle /\ PIdle /\ SIdle /\ RIdle /\ TIdle /\ XIdle /\ CIdle

ENext == \E r \in 1..MaxUpserts : BeginUpsert(r) \/ QueryRecord(r) \/ CommitUpsert(r)

SpecEnergy == EInit /\ [][ENext]_vars

\* C35: the store holds at most one DailyEnergy row for a user and a day
C35_OneRowPerUserAndDay ==
    \A user_id \in EUsers, day \in EDays :
        Cardinality(RowsFor(energyRows, user_id, day)) <= 1

\* what holds: a request that found a row inserts none, so the rows of a user
\* and day are at most the finished requests for them whose query found nothing
C35_RowsOnlyFromEmptyQueries ==
    \A user_id \in EUsers, day \in EDays :
        Cardinality(RowsFor(energyRows, user_id, day))
            = Cardinality({r \in 1..MaxUpserts :
                              /\ upsert[r].pc = "done"
                              /\ upsert[r].user_id = user_id
                              /\ upsert[r].day = day
                              /\ upsert[r].record = None})

\* two requests for the same user and day have both finished
C35_WitnessTwoRequests ==
    \E r \in 1..MaxUpserts, q \in 1..MaxUpserts :
        /\ r # q
        /\ upsert[r].pc = "done" /\ upsert[q].pc = "done"
        /\ upsert[r].user_id = upsert[q].user_id
        /\ upsert[r].day = upsert[q].day
        /\ Cardinality(RowsFor(energyRows, upsert[r].user_id, upsert[r].day)) = 2

-----------------------------------------------------------------------------
(* Sessions in progress *)

InProgress(rows, user_id) == {s \in rows : s.user_id = user_id /\ s.status = "IN_PROGRESS"}

\* C36: in every reachable state a user has at most one session IN_PROGRESS
C36_OneInProgressPerUser ==
    \A user_id \in {s.user_id : s \in dbSessions} :
        Cardinality(InProgress(dbSessions, user_id)) <= 1

\* what holds: POST /schedule/sessions/{id}/start on a session that is not yet in
\* progress, cleanup and regeneration leave the user at most one session
\* IN_PROGRESS when there was at most one before; only PATCH adds a second one
C36_OnlyPatchAddsSecond ==
    (/\ last.op \in {"start_session", "generate_week_plan", "create_session"}
     /\ Cardinality(InProgress(last.before_sessions, SUser.id)) <= 1)
        => Cardinality(InProgress(dbSessions, SUser.id)) <= 1

\* a start demoted the session that was in progress
C36_WitnessStart ==
    /\ last.op = "start_session"
    /\ last.code = 200
    /\ Cardinality(InProgress(last.before_sessions, SUser.id)) = 1
    /\ InProgress(dbSessions, SUser.id) # InProgress(last.before_sessions, SUser.id)
    /\ Cardinality(InProgress(dbSessions, SUser.id)) = 1

\* a PATCH left two sessions in progress
C36_WitnessPatch ==
    /\ last.op = "update_session"
    /\ Cardinality(InProgress(dbSessions, SUser.id)) = 2

-----------------------------------------------------------------------------
(* Blocks of one WeeklyPlan *)

\* the blocks of the plan by day number and position in the day's list
BlockAt == UNION {{<<d, i>> : i \in 1..Len(pPlans[d].sessions)} : d \in 1..Len(pPlans)}

BlocksOverlap(a, b) == sessions_overlap(a.start_time, a.end_time, b.start_time, b.end_time)

\* C37: no two blocks of one WeeklyPlan overlap in time, within a day or across
\* days
C37_NoOverlapInPlan ==
    \A p \in BlockAt, q \in BlockAt :
        p # q => ~ BlocksOverlap(pPlans[p[1]].sessions[p[2]], pPlans[q[1]].sessions[q[2]])

\* what holds: the blocks of one day do not overlap, and each is followed by a
\* gap of at least break_duration before the next one in time
C37_NoOverlapWithinDay ==
    \A p \in BlockAt, q \in BlockAt :
        (p # q /\ p[1] = q[1]) =>
            LET a == pPlans[p[1]].sessions[p[2]]
                b == pPlans[q[1]].sessions[q[2]]
            IN  \/ a.end_time + pUser.break_duration <= b.start_time
                \/ b.end_time + pUser.break_duration <= a.start_time

\* a day planned on two windows that overlap, with blocks from both
C37_WitnessOverlappingWindows ==
    /\ pUser # <<>>
    /\ pUser.preferred_study_windows = <<Custom(<<8, 0>>, <<10, 0>>), Custom(<<9, 0>>, <<11, 0>>)>>
    /\ \E d \in 1..Len(pPlans) : Len(pPlans[d].sessions) >= 3

\* blocks of two consecutive days overlap
C37_WitnessAcrossDays ==
    \E p \in BlockAt, q \in BlockAt :
        /\ q[1] = p[1] + 1
        /\ BlocksOverlap(pPlans[p[1]].sessions[p[2]], pPlans[q[1]].sessions[q[2]])

-----------------------------------------------------------------------------
(* Order of DailyPlan.sessions *)

InStartOrder(sessions) ==
    \A i \in 1..Len(sessions), j \in 1..Len(sessions) :
        i < j => sessions[i].start_time <= sessions[j].start_time

\* C38: in every DailyPlan the sessions list is in non-decreasing start_time
\* order
C38_SessionsInStartOrder ==
    \A d \in 1..Len(pPlans) : InStartOrder(pPlans[d].sessions)

\* what holds: the list is in start_time order on every day whose blocks are all
\* of one subject, interleave_subjects having nothing to exchange there
C38_InStartOrderOnOneSubject ==
    \A d \in 1..Len(pPlans) :
        Cardinality({pPlans[d].sessions[i].subject_id : i \in 1..Len(pPlans[d].sessions)}) <= 1
            => InStartOrder(pPlans[d].sessions)

\* a day with three blocks or more of one subject, in start order
C38_WitnessOneSubject ==
    \E d \in 1..Len(pPlans) :
        /\ Len(pPlans[d].sessions) >= 3
        /\ Cardinality({pPlans[d].sessions[i].subject_id : i \in 1..Len(pPlans[d].sessions)}) = 1

\* a day whose list has a later block before an earlier one
C38_WitnessExchanged ==
    \E d \in 1..Len(pPlans) : ~ InStartOrder(pPlans[d].sessions)

-----------------------------------------------------------------------------
(* Minutes assigned by one run *)

\* the tasks the run was given
QTasks == UNION {SeqToSet(tasks) : tasks \in QTaskChoices(pRef)}

RECURSIVE MinutesIn(_, _)
MinutesIn(sessions, task_id) ==
    IF sessions = <<>> THEN 0
    ELSE (IF Head(sessions).task_id = task_id
          THEN Head(sessions).end_time - Head(sessions).start_time ELSE 0)
         + MinutesIn(Tail(sessions), task_id)

RECURSIVE AssignedFrom(_, _)
AssignedFrom(d, task_id) ==
    IF d > Len(pPlans) THEN 0
    ELSE MinutesIn(pPlans[d].sessions, task_id) + AssignedFrom(d + 1, task_id)

\* the minutes of the blocks the run has assigned to the task so far
AssignedMinutes(task_id) == AssignedFrom(1, task_id)

\* C39: the blocks one run assigns to a task never total more than the minutes
\* the task had left at the start: estimated minutes less session minutes and
\* timer minutes, and 0 when that is negative
C39_AssignedWithinRemaining ==
    pUser # <<>> =>
        \A task \in QTasks :
            AssignedMinutes(task.id)
                <= Max(0, task.estimated_minutes
                          - (IF task.actual_minutes_spent = None THEN 0
                             ELSE task.actual_minutes_spent)
                          - task.timer_minutes_spent)

\* the task with 45 session minutes and 15 timer minutes on an estimate of 180 has
\* got its 120 minutes, in more than one block
C39_Witness ==
    /\ pUser # <<>>
    /\ AssignedMinutes(4) = 120
    /\ \E d \in 1..Len(pPlans) :
          \E i \in 1..Len(pPlans[d].sessions) :
             /\ pPlans[d].sessions[i].task_id = 4
             /\ pPlans[d].sessions[i].end_time - pPlans[d].sessions[i].start_time < 120

\* the task on which more was spent than estimated gets no block
C39_WitnessOverspent ==
    /\ pUser # <<>>
    /\ pOffset = PlanDays
    /\ AssignedMinutes(7) = 0
    /\ AssignedMinutes(6) > 0

-----------------------------------------------------------------------------
(* _calculate_deadline_weight_modifier on two tasks *)

\* deadlines from two days before the reference to eight days after it, in
\* minutes from the reference
DeadlineOffsets ==
    {-2 * Day, -5, 0, 5, Hour, Day, Day + 18 * Hour - 5, Day + 18 * Hour,
     Day + 18 * Hour + 5, 2 * Day, 7 * Day - 5, 7 * Day, 8 * Day}

DeadlineStart ==
    /\ \E reference \in {8 * Day + 9 * Hour + 30, 8 * Day + 23 * Hour + 55},
          nearer \in DeadlineOffsets, later \in DeadlineOffsets :
          /\ nearer <= later
          /\ args = [reference |-> reference,
                     tasks |-> << OpenTask(1, "MEDIUM", 1, reference + nearer, 60),
                                  OpenTask(2, "MEDIUM", 1, reference + later, 60) >>]
    /\ frame = <<>>
    /\ pc = "call"

\* the calls of the loop of calculate_weights for the two tasks
CallDeadlineModifier ==
    /\ pc = "call"
    /\ frame' = [modifier |-> [i \in 1..2 |->
                    calculate_deadline_weight_modifier(args.tasks[i], args.reference)]]
    /\ pc' = "returned"
    /\ UNCHANGED args
    /\ UNCHANGED <<weightVars, interleaveVars, planVars, storeVars, routeVars, recurVars>>
    /\ UNCHANGED <<twinVars, energyVars>>

DeadlineInit == DeadlineStart /\ WIdle /\ IIdle /\ PIdle /\ SIdle /\ RIdle /\ TIdle /\ XIdle /\ EIdle

DeadlineNext == CallDeadlineModifier

SpecDeadline == DeadlineInit /\ [][DeadlineNext]_vars

\* minutes from the reference to the deadline of task i
MinutesAhead(i) == args.tasks[i].deadline - args.reference

\* C40: the deadline factor never decreases as the deadline gets closer or
\* passes: of two tasks the one with the earlier deadline, passed or not, has a
\* factor at least as large as the other's
C40_FactorGrowsTowardsDeadline ==
    pc = "returned" => frame.modifier[1] >= frame.modifier[2]

\* what holds: the factor does not decrease as the deadline gets closer while
\* it is still ahead; every passed deadline has the factor 1.75 (3528 in units
\* of 1/2016), which is at least the factor of a deadline 1.75 days or more ahead
\* and less than the factor of every deadline nearer than that
C40_FactorGrowsWhileAhead ==
    pc = "returned" =>
        /\ MinutesAhead(1) > 0 => frame.modifier[1] >= frame.modifier[2]
        /\ MinutesAhead(1) <= 0 => frame.modifier[1] = 3528
        /\ (MinutesAhead(1) <= 0 /\ MinutesAhead(2) >= Day + 18 * Hour) =>
               frame.modifier[1] >= frame.modifier[2]
        /\ (MinutesAhead(1) <= 0 /\ MinutesAhead(2) > 0 /\ MinutesAhead(2) < Day + 18 * Hour) =>
               frame.modifier[1] < frame.modifier[2]

\* a passed deadline against one a day ahead
C40_WitnessPassed ==
    /\ pc = "returned"
    /\ MinutesAhead(1) = -5
    /\ MinutesAhead(2) = Day
    /\ frame.modifier[1] < frame.modifier[2]

\* two deadlines ahead, the nearer with the larger factor
C40_WitnessAhead ==
    /\ pc = "returned"
    /\ MinutesAhead(1) = Hour
    /\ MinutesAhead(2) = 2 * Day
    /\ frame.modifier[1] > frame.modifier[2]
====
